---- MODULE Spec2Model ----
(***************************************************************************)
(* A model of llmjam: the streaming note segmenter (pitch_to_midi.py), the *)
(* streaming response decoder (llm_client.py) and the beat-synchronised    *)
(* playback scheduler (midi_output.py).                                    *)
(*                                                                         *)
(* Units.  Segmenter: time in units of 0.05 s, pitch in quarter semitones, *)
(* confidence in tenths.  Playback: time in ticks, 380 ticks to the        *)
(* minute, so that 60/BPM and its half are whole numbers of ticks for the  *)
(* tempos of BpmChoices.                                                   *)
(*                                                                         *)
(* Each component has its own specification (SegSpec, DecSpec, PlaySpec);  *)
(* the variables of the other components stay at their initial values.     *)
(***************************************************************************)
EXTENDS Integers, Sequences, FiniteSets, TLC

VARIABLES
    \* ---- StreamingPitchToMidi (pitch_to_midi.py) ----
    notes,            \* self.notes
    current_note,     \* self.current_note   (None or Some(pitch))
    current_onset,    \* self.current_onset  (None or Some(time))
    current_conf,     \* self.current_conf   (None or Some(conf))
    last_time,        \* self.last_time
    fed,              \* history: the frames handed to process_block so far
    seg_returns,      \* history: the lists get_midi_events has returned
    carried,          \* history: a block began while a note was active
    \* ---- stream_llm_midi_response (llm_client.py) ----
    text,             \* the whole response the text source will stream
    pos,              \* how much of it has been delivered as fragments
    buffer,           \* buffer
    yielded,          \* the events yielded so far, in order
    dec_pc,           \* "streaming" | "closed": the generator has returned
    mid_cut,          \* history: a fragment ended in the middle of a line
    \* ---- clock, metronome and playback (midi_output.py) ----
    now,              \* time.time()
    BPM, BEAT_DURATION, EIGHTH_NOTE_DURATION, BAR_DURATION,
    jam_running,      \* jam_running.is_set()
    jam_start_time,
    drum_threads,     \* the drum_beat_loop threads started so far
    drums,            \* the drum_beat_loop threads: position, locals, history
    mixer_open,       \* pygame.mixer is initialised
    pc,               \* where the caller of the playback functions is
    kind,             \* "none" | "batch" | "stream": the playback call made
    synced,           \* the call found the metronome running
    channel,
    midi_events,      \* send_midi_sequence: the list as given
    events,           \* send_midi_sequence: sorted and rebased
    ev_i,             \* send_midi_sequence: the event the loop is at
    sequence_start_time,
    zero_time,        \* play_midi_events_streaming (None or Some(time))
    first_event_processed,
    zero_writes,      \* history: the assignments to zero_time
    wake,             \* the deadline of the time.sleep in progress
    midi_log,         \* history: the messages given to midiout.send_message
    t_call,           \* history: the time of the playback call
    received,         \* history: the events the iterator has yielded
    arrivals,         \* history: the times at which it yielded them
    await_ticks,      \* the time spent waiting for the iterator
    \* ---- the metronome under concurrent calls (midi_output.py) ----
    upd,              \* the thread in update_bpm: position and argument
    rd,               \* a thread in the syncing logic of send_midi_sequence
    \* ---- the session (llmjam.py) ----
    main_pc,          \* where main is
    playing_style,    \* the global playing_style
    midi_input,       \* main: what get_midi_events returned
    midi_event_stream, \* main: the generator (None or Some(its locals))
    rounds,           \* history: one record for each round of main's loop
    \* ---- the wire format (llm_client.py) ----
    wire_events,      \* the list given to midi_events_to_csv
    wire_csv,         \* what it returned (None or Some(text))
    wire_back,        \* what csv_to_midi_events made of that (None or Some)
    \* ---- the epoch under concurrent readers (midi_output.py) ----
    sj,               \* the thread that calls start_jam and stop_jam
    er,               \* a thread that tests jam_running, then reads the epoch
    epoch_log         \* history: the values start_jam wrote to jam_start_time

segVars == <<notes, current_note, current_onset, current_conf, last_time,
             fed, seg_returns, carried>>

decVars == <<text, pos, buffer, yielded, dec_pc, mid_cut>>

playVars == <<now, BPM, BEAT_DURATION, EIGHTH_NOTE_DURATION, BAR_DURATION,
              jam_running, jam_start_time, drum_threads, drums, mixer_open,
              pc, kind, synced,
              channel, midi_events, events, ev_i, sequence_start_time,
              zero_time, first_event_processed, zero_writes, wake, midi_log,
              t_call, received, arrivals, await_ticks>>

metroVars == <<upd, rd>>

sessVars == <<main_pc, playing_style, midi_input, midi_event_stream, rounds>>

wireVars == <<wire_events, wire_csv, wire_back>>

epochVars == <<sj, er, epoch_log>>

vars == <<segVars, decVars, playVars, metroVars, sessVars, wireVars,
          epochVars>>

----------------------------------------------------------------------------
(* Generic helpers *)

None == <<>>
Some(x) == <<x>>
Val(o) == o[1]

Abs(x) == IF x < 0 THEN -x ELSE x
Max(a, b) == IF a >= b THEN a ELSE b
Last(s) == s[Len(s)]

----------------------------------------------------------------------------
(* Bounds of the model *)

MaxFrames == 4        \* frames handed to one segmenter
MaxFlush == 2         \* calls of get_midi_events on one segmenter
MaxLines == 2         \* newline-terminated lines of one response
MaxEvents == 2        \* events of one batch, and of one stream
MaxIdle == 9          \* the latest time of a call by the session
MaxLatency == 1       \* the time the iterator takes to yield an event
MaxTime == 0          \* the latest time of a call on the metronome
MaxLate == 1          \* how late a time.sleep of a drum thread may return
MaxStarts == 2        \* calls of start_jam that start a drum thread
MaxTicks == 3         \* eighth notes fired by one drum thread
MaxCount == 9         \* eighth notes fired by the thread of an undisturbed jam
MaxRounds == 3        \* rounds of main's loop
MaxYield == 2         \* events the text source streams in one round
MaxWire == 2          \* events in a list given to midi_events_to_csv
MaxEpochTime == 2     \* the latest time of a call of start_jam
MaxCalls == 3         \* calls of start_jam and stop_jam
MaxReads == 2         \* tests of jam_running by the reader
MaxUpdates == 2       \* calls of update_bpm while the metronome is modelled

----------------------------------------------------------------------------
(* Segmenter: pitch_to_midi.py *)

\* n semitones in pitch units (quarter semitones)
Semis(n) == 4 * n

\* StreamingPitchToMidi.__init__ defaults: threshold=0.3 (tenths),
\* min_note_len=0.1 s (two time units of 0.05 s)
threshold == 3
min_note_len == 2

\* int(round(x)): Python rounds halves to the even neighbour
PyRound(q) ==
    LET f == q \div Semis(1)
        r == q % Semis(1)
    IN  IF 2 * r < Semis(1) THEN f
        ELSE IF 2 * r > Semis(1) THEN f + 1
        ELSE IF f % 2 = 0 THEN f ELSE f + 1

\* a plausible slip: a frame is voiced only above the threshold
VoicedAbove(midi, conf) == conf > threshold /\ 0 <= midi /\ midi <= Semis(127)

\* if conf >= threshold and 0 <= midi <= 127
Voiced(midi, conf) == conf >= threshold /\ 0 <= midi /\ midi <= Semis(127)

\* a plausible slip: a new note only from a whole semitone of difference
ChangedBySemitone(midi, cur) == Abs(midi - cur) > Semis(1)

\* a plausible slip: half a semitone of difference is a new note already
ChangedFromHalf(midi, cur) == 2 * Abs(midi - cur) >= Semis(1)

\* abs(midi - current_note) > 0.5
Changed(midi, cur) == 2 * Abs(midi - cur) > Semis(1)

\* a plausible slip: a note must be longer than min_note_len
LongerThanMin(duration) == duration > min_note_len

\* if duration >= min_note_len
LongEnough(duration) == duration >= min_note_len

\* a plausible slip: the active note left in place by the flush
KeptActive(cur) == cur

\* get_midi_events: self.current_note = None, and so the onset and confidence
Cleared(cur) == None

\* the dict appended for a closed note
NoteDict(cur, onset, duration) ==
    [note |-> PyRound(cur), start_time |-> onset, duration |-> duration]

\* the frames the pitch source may deliver: <<pitch, confidence>>
FrameKinds ==
    { <<Semis(60), threshold>>,          \* 60.0, confidence at the threshold
      <<Semis(60) + 2, threshold + 1>>,  \* 60.5: within the wobble tolerance
      <<Semis(60) + 3, threshold>>,      \* 60.75: a pitch change from 60.0
      <<Semis(61) + 2, threshold + 1>>,  \* 61.5
      <<Semis(60), threshold - 1>>,      \* below the threshold
      <<Semis(127) + 1, threshold>> }    \* pitch out of 0..127
Gaps == {1, 2}                           \* time between successive frames

\* audio_to_midi, one iteration of the loop over the frames (whole signal)
A2MStep(s, midi, conf, t) ==
    IF Voiced(midi, conf)
    THEN IF s.current_note = None
         THEN [s EXCEPT !.current_note = Some(midi), !.current_onset = Some(t)]
         ELSE IF Changed(midi, Val(s.current_note))
         THEN LET duration == t - Val(s.current_onset)
              IN  [notes |-> IF LongEnough(duration)
                             THEN Append(s.notes, NoteDict(Val(s.current_note),
                                            Val(s.current_onset), duration))
                             ELSE s.notes,
                   current_note |-> Some(midi),
                   current_onset |-> Some(t)]
         ELSE s
    ELSE IF s.current_note # None
         THEN LET duration == t - Val(s.current_onset)
              IN  [notes |-> IF LongEnough(duration)
                             THEN Append(s.notes, NoteDict(Val(s.current_note),
                                            Val(s.current_onset), duration))
                             ELSE s.notes,
                   current_note |-> None,
                   current_onset |-> None]
         ELSE s

RECURSIVE A2MLoop(_, _, _)
A2MLoop(s, frames, i) ==
    IF i > Len(frames) THEN s
    ELSE A2MLoop(A2MStep(s, frames[i].midi, frames[i].conf, frames[i].t),
                 frames, i + 1)

\* audio_to_midi on the frames of the whole signal
audio_to_midi(frames) ==
    LET s == A2MLoop([notes |-> <<>>, current_note |-> None,
                      current_onset |-> None], frames, 1)
    IN  IF s.current_note # None /\ s.current_onset # None
        THEN LET duration == Last(frames).t - Val(s.current_onset)
             IN  IF LongEnough(duration)
                 THEN Append(s.notes, NoteDict(Val(s.current_note),
                                               Val(s.current_onset), duration))
                 ELSE s.notes
        ELSE s.notes

\* process_block, one iteration of the loop over the frames of a block
ProcessFrame(s, midi, conf, t) ==
    IF Voiced(midi, conf)
    THEN IF s.current_note = None
         THEN [s EXCEPT !.current_note = Some(midi), !.current_onset = Some(t),
                        !.current_conf = Some(conf)]
         ELSE IF Changed(midi, Val(s.current_note))
         THEN LET duration == t - Val(s.current_onset)
              IN  [notes |-> IF LongEnough(duration)
                             THEN Append(s.notes, NoteDict(Val(s.current_note),
                                            Val(s.current_onset), duration))
                             ELSE s.notes,
                   current_note |-> Some(midi),
                   current_onset |-> Some(t),
                   current_conf |-> Some(conf)]
         ELSE s
    ELSE IF s.current_note # None
         THEN LET duration == t - Val(s.current_onset)
              IN  [notes |-> IF LongEnough(duration)
                             THEN Append(s.notes, NoteDict(Val(s.current_note),
                                            Val(s.current_onset), duration))
                             ELSE s.notes,
                   current_note |-> None,
                   current_onset |-> None,
                   current_conf |-> None]
         ELSE s

RECURSIVE ProcessFrames(_, _, _)
ProcessFrames(s, frames, i) ==
    IF i > Len(frames) THEN s
    ELSE ProcessFrames(ProcessFrame(s, frames[i].midi, frames[i].conf,
                                    frames[i].t), frames, i + 1)

\* a plausible slip: the time of the block's first frame instead of its last
LastTimeFirstFrame(time_arr, old) ==
    IF Len(time_arr) > 0 THEN time_arr[1].t ELSE old

\* self.last_time = time_arr[-1] if len(time_arr) > 0 else self.last_time
NewLastTime(time_arr, old) ==
    IF Len(time_arr) > 0 THEN Last(time_arr).t ELSE old

\* time_arr = time_arr + block_start_time
RECURSIVE RelTimes(_, _)
RelTimes(blk, i) ==
    IF i = 1 THEN 0 ELSE RelTimes(blk, i - 1) + blk[i][2]

\* a plausible slip: the times left relative to the block
NotOffset(blk, block_start_time) ==
    [i \in 1..Len(blk) |->
        [t |-> RelTimes(blk, i), midi |-> blk[i][1][1], conf |-> blk[i][1][2]]]

Offset(blk, block_start_time) ==
    [i \in 1..Len(blk) |->
        [t |-> RelTimes(blk, i) + block_start_time,
         midi |-> blk[i][1][1], conf |-> blk[i][1][2]]]

\* StreamingPitchToMidi.process_block(block, block_start_time): blk gives, per
\* frame, its kind and its distance from the frame before it.  The first frame
\* of a block is at relative time 0; the first block starts at 0.0
\* (llmjam.py: block_start_time = 0.0) and every later block after the last
\* frame seen.
process_block(blk, block_start_time) ==
    LET frames == Offset(blk, block_start_time)
        s == ProcessFrames([notes |-> notes, current_note |-> current_note,
                            current_onset |-> current_onset,
                            current_conf |-> current_conf], frames, 1)
    IN  /\ Len(seg_returns) = 0
        /\ notes' = s.notes
        /\ current_note' = s.current_note
        /\ current_onset' = s.current_onset
        /\ current_conf' = s.current_conf
        /\ last_time' = NewLastTime(frames, last_time)
        /\ fed' = fed \o frames
        /\ carried' = (carried \/ (current_note # None /\ Len(frames) > 0))
        /\ UNCHANGED seg_returns

ProcessBlock ==
    \E k \in 0..(MaxFrames - Len(fed)) :
        \E blk \in [1..k -> FrameKinds \X Gaps] :
            \E block_start_time \in
                    IF fed = <<>> THEN {0}
                    ELSE IF k = 0 THEN {Last(fed).t + g : g \in Gaps}
                    ELSE {Last(fed).t + blk[1][2]} :
                process_block(blk, block_start_time)

\* StreamingPitchToMidi.get_midi_events()
get_midi_events ==
    LET flushed ==
            IF current_note # None /\ current_onset # None
            THEN LET duration == last_time - Val(current_onset)
                 IN  IF LongEnough(duration)
                     THEN Append(notes, NoteDict(Val(current_note),
                                                 Val(current_onset), duration))
                     ELSE notes
            ELSE notes
    IN  /\ Len(seg_returns) < MaxFlush
        /\ notes' = flushed
        /\ IF current_note # None /\ current_onset # None
           THEN /\ current_note' = Cleared(current_note)
                /\ current_onset' = Cleared(current_onset)
                /\ current_conf' = Cleared(current_conf)
           ELSE UNCHANGED <<current_note, current_onset, current_conf>>
        /\ seg_returns' = Append(seg_returns, flushed)
        /\ UNCHANGED <<last_time, fed, carried>>

SegStart ==
    /\ notes = <<>>
    /\ current_note = None
    /\ current_onset = None
    /\ current_conf = None
    /\ last_time = 0
    /\ fed = <<>>
    /\ seg_returns = <<>>
    /\ carried = FALSE

SegNext ==
    \/ ProcessBlock
    \/ get_midi_events

----------------------------------------------------------------------------
(* Text: a string is a sequence of one-character strings *)

Digits == {"0", "1", "2", "3", "4", "5", "6", "7", "8", "9"}

DigitVal(c) ==
    CASE c = "0" -> 0 [] c = "1" -> 1 [] c = "2" -> 2 [] c = "3" -> 3
      [] c = "4" -> 4 [] c = "5" -> 5 [] c = "6" -> 6 [] c = "7" -> 7
      [] c = "8" -> 8 [] c = "9" -> 9

\* the characters str.strip() removes
IsSpace(c) == c \in {" ", "\t", "\n", "\r"}

\* the line boundaries of str.splitlines()
IsLineBreak(c) == c \in {"\n", "\r"}

Contains(s, c) == \E i \in 1..Len(s) : s[i] = c

\* the first index of s holding a character of cs, 0 when there is none
FirstIndex(s, cs) ==
    IF \E i \in 1..Len(s) : s[i] \in cs
    THEN CHOOSE i \in 1..Len(s) :
            /\ s[i] \in cs
            /\ \A j \in 1..(i - 1) : s[j] \notin cs
    ELSE 0

From(s, i) == SubSeq(s, i, Len(s))

RECURSIVE LStrip(_)
LStrip(s) ==
    IF s # <<>> /\ IsSpace(s[1]) THEN LStrip(From(s, 2)) ELSE s

RECURSIVE RStrip(_)
RStrip(s) ==
    IF s # <<>> /\ IsSpace(s[Len(s)])
    THEN RStrip(SubSeq(s, 1, Len(s) - 1)) ELSE s

\* str.strip()
Strip(s) == RStrip(LStrip(s))

\* str.split(sep): always at least one part
RECURSIVE Split(_, _)
Split(s, sep) ==
    LET i == FirstIndex(s, {sep})
    IN  IF i = 0 THEN <<s>>
        ELSE <<SubSeq(s, 1, i - 1)>> \o Split(From(s, i + 1), sep)

\* str.splitlines(): breaks at \n, \r and \r\n, no empty last line
RECURSIVE SplitLines(_)
SplitLines(s) ==
    IF s = <<>> THEN <<>>
    ELSE LET i == FirstIndex(s, {"\n", "\r"})
         IN  IF i = 0 THEN <<s>>
             ELSE LET next == IF s[i] = "\r" /\ i < Len(s) /\ s[i + 1] = "\n"
                              THEN i + 2 ELSE i + 1
                  IN  <<SubSeq(s, 1, i - 1)>> \o SplitLines(From(s, next))

RECURSIVE DigitsVal(_)
DigitsVal(d) ==
    IF d = <<>> THEN 0
    ELSE 10 * DigitsVal(SubSeq(d, 1, Len(d) - 1)) + DigitVal(d[Len(d)])

RECURSIVE Pow10(_)
Pow10(n) == IF n = 0 THEN 1 ELSE 10 * Pow10(n - 1)

\* int(s): blanks around, an optional sign, decimal digits; ok = FALSE stands
\* for ValueError
PyInt(s) ==
    LET t == Strip(s)
        signed == t # <<>> /\ t[1] \in {"-", "+"}
        body == IF signed THEN From(t, 2) ELSE t
        ok == body # <<>> /\ \A i \in 1..Len(body) : body[i] \in Digits
    IN  [ok |-> ok,
         val |-> IF ~ok THEN 0
                 ELSE IF signed /\ t[1] = "-" THEN -DigitsVal(body)
                 ELSE DigitsVal(body)]

\* a float as the fraction num/den in lowest decimal terms
RECURSIVE Lowest(_, _)
Lowest(num, den) ==
    IF den > 1 /\ num % 10 = 0 THEN Lowest(num \div 10, den \div 10)
    ELSE [num |-> num, den |-> den]

\* float(s): blanks around, an optional sign, digits with at most one point
\* (exponents, inf and nan are outside the alphabet of the model)
PyFloat(s) ==
    LET t == Strip(s)
        signed == t # <<>> /\ t[1] \in {"-", "+"}
        body == IF signed THEN From(t, 2) ELSE t
        dot == FirstIndex(body, {"."})
        whole == IF dot = 0 THEN body ELSE SubSeq(body, 1, dot - 1)
        frac == IF dot = 0 THEN <<>> ELSE From(body, dot + 1)
        ok == /\ whole \o frac # <<>>
              /\ \A i \in 1..Len(whole) : whole[i] \in Digits
              /\ \A i \in 1..Len(frac) : frac[i] \in Digits
        mag == DigitsVal(whole \o frac)
    IN  [ok |-> ok,
         val |-> IF ~ok THEN Lowest(0, 1)
                 ELSE Lowest(IF signed /\ t[1] = "-" THEN -mag ELSE mag,
                             Pow10(Len(frac)))]

----------------------------------------------------------------------------
(* Decoder: llm_client.py *)

\* notes_part of a line: a list when it holds '|', else one int
ParseNotes(notes_part) ==
    IF Contains(notes_part, "|")
    THEN LET ps == Split(notes_part, "|")
         IN  [ok |-> \A i \in 1..Len(ps) : PyInt(ps[i]).ok,
              val |-> [is_list |-> TRUE,
                       ns |-> [i \in 1..Len(ps) |-> PyInt(ps[i]).val]]]
    ELSE [ok |-> PyInt(notes_part).ok,
          val |-> [is_list |-> FALSE, ns |-> <<PyInt(notes_part).val>>]]

\* the loop of csv_to_midi_events over the lines, from line i on
RECURSIVE CsvLoop(_, _, _)
CsvLoop(lines, i, acc) ==
    IF i > Len(lines) THEN [raised |-> FALSE, events |-> acc]
    ELSE LET parts == Split(Strip(lines[i]), ",")
         IN  IF Len(parts) # 4 THEN CsvLoop(lines, i + 1, acc)
             ELSE LET n == ParseNotes(parts[1])
                      v == PyInt(parts[2])
                      st == PyFloat(parts[3])
                      d == PyFloat(parts[4])
                  IN  IF n.ok /\ v.ok /\ st.ok /\ d.ok
                      THEN CsvLoop(lines, i + 1,
                               Append(acc,
                                      [note |-> n.val, velocity |-> v.val,
                                       start_time |-> st.val,
                                       duration |-> d.val]))
                      ELSE [raised |-> TRUE, events |-> <<>>]

\* csv_to_midi_events(csv_str): the events, or raised = TRUE for ValueError
csv_to_midi_events(csv_str) ==
    CsvLoop(SplitLines(Strip(csv_str)), 1, <<>>)

\* what one line taken off the buffer yields: the body of the while loop
LineEvents(raw) ==
    LET line == Strip(raw)
    IN  IF line = <<>> THEN <<>>
        ELSE LET r == csv_to_midi_events(line)
             IN  IF r.raised THEN <<>>             \* except Exception: continue
                 ELSE IF r.events # <<>> THEN <<r.events[1]>>
                 ELSE <<>>

\* a plausible slip: "if" for "while", one line taken off per fragment
DrainOnce(buf, out) ==
    LET i == FirstIndex(buf, {"\n"})
    IN  IF i = 0 THEN [buffer |-> buf, out |-> out]
        ELSE [buffer |-> From(buf, i + 1),
              out |-> out \o LineEvents(SubSeq(buf, 1, i - 1))]

\* while '\n' in buffer: line, buffer = buffer.split('\n', 1) ...
RECURSIVE Drain(_, _)
Drain(buf, out) ==
    LET i == FirstIndex(buf, {"\n"})
    IN  IF i = 0 THEN [buffer |-> buf, out |-> out]
        ELSE Drain(From(buf, i + 1), out \o LineEvents(SubSeq(buf, 1, i - 1)))

\* a plausible slip: every fragment decoded on its own
BufferReplaced(buf, delta) == delta

\* buffer += delta
BufferAppend(buf, delta) == buf \o delta

\* a plausible slip: the rest of the buffer decoded when the stream ends
FlushAtEnd(buf, out) == out \o LineEvents(buf)

\* the for loop over the chunks ends: the generator returns
AtEndOfStream(buf, out) == out

\* one chunk of the response: for chunk in response
Fragment(delta) ==
    IF delta = <<>>
    THEN UNCHANGED <<buffer, yielded>>              \* if not delta: continue
    ELSE LET r == Drain(BufferAppend(buffer, delta), yielded)
         IN  /\ buffer' = r.buffer
             /\ yielded' = r.out

Feed ==
    /\ dec_pc = "streaming"
    /\ \E k \in 0..(Len(text) - pos) :
        /\ Fragment(SubSeq(text, pos + 1, pos + k))
        /\ pos' = pos + k
        /\ mid_cut' = (mid_cut \/ (k > 0 /\ pos + k < Len(text)
                                         /\ text[pos + k] # "\n"))
    /\ UNCHANGED <<text, dec_pc>>

EndOfStream ==
    /\ dec_pc = "streaming"
    /\ pos = Len(text)
    /\ dec_pc' = "closed"
    /\ yielded' = AtEndOfStream(buffer, yielded)
    /\ UNCHANGED <<text, pos, buffer, mid_cut>>

\* the lines a response is made of
GoodLine == <<"6", ",", "9", ",", "0", ",", "1">>
ChordLine == <<" ", "6", "|", "7", ",", "9", ",", ".", "5", ",", "1", "\r">>
ShortLine == <<"6", ",", "9", ",", "0">>
WordLine == <<"x", ",", "9", ",", "0", ",", "1">>
BlankLine == <<>>
ReturnLine == <<"6", ",", "9", "\r", "7", ",", "9", ",", "0", ",", "1">>
RangeLine == <<"1", "2", "8", ",", "1", "2", "8", ",", "0", ",", "0">>

LineCatalog ==
    {GoodLine, ChordLine, ShortLine, WordLine, BlankLine, ReturnLine,
     RangeLine}
TailCatalog == {<<>>, GoodLine, ShortLine}

RECURSIVE JoinLines(_, _)
JoinLines(ls, i) ==
    IF i > Len(ls) THEN <<>>
    ELSE ls[i] \o <<"\n">> \o JoinLines(ls, i + 1)

Responses ==
    UNION { { JoinLines(ls, 1) \o tl : ls \in [1..n -> LineCatalog],
                                      tl \in TailCatalog } : n \in 0..MaxLines }

DecStart ==
    /\ pos = 0
    /\ buffer = <<>>
    /\ yielded = <<>>
    /\ dec_pc = "streaming"
    /\ mid_cut = FALSE

DecNext ==
    \/ Feed
    \/ EndOfStream

----------------------------------------------------------------------------
(* Playback: midi_output.py                                                *)
(*                                                                         *)
(* Time is the variable now, read by time.time().  It passes only while    *)
(* the calling thread is blocked: in time.sleep, which returns exactly at  *)
(* its deadline, between two calls of the caller (IdleTick) and while      *)
(* play_midi_events_streaming waits for the next event of its iterator     *)
(* (AwaitTick).  The code between two blocking calls takes no time.  One   *)
(* behaviour holds one playback call, made at any time within MaxIdle.     *)

TicksPerMinute == 4 * 95
BpmChoices == {95, 190}            \* the values given to update_bpm
BEATS_PER_BAR == 4

\* 0x90 | channel and 0x80 | channel, for channel in 0..15
StatusOn(ch) == 144 + ch
StatusOff(ch) == 128 + ch
IsOn(m) == m.status \div 16 = 9

Channels == {0, 1}

\* the events a caller or a stream may hand over; times in ticks
One(n) == [is_list |-> FALSE, ns |-> <<n>>]
Chord(ns) == [is_list |-> TRUE, ns |-> ns]
EventCatalog ==
    { [note |-> One(60), velocity |-> 100, start_time |-> 2, duration |-> 2],
      [note |-> Chord(<<60, 64, 67>>), velocity |-> 90, start_time |-> 3,
       duration |-> 1],
      [note |-> One(62), velocity |-> 100, start_time |-> 5, duration |-> 1] }

\* if not isinstance(notes, list): notes = [notes]
NoteList(note) == note.ns

\* update_bpm(new_bpm)
update_bpm(new_bpm) ==
    /\ BPM' = new_bpm
    /\ BEAT_DURATION' = TicksPerMinute \div new_bpm
    /\ EIGHTH_NOTE_DURATION' = (TicksPerMinute \div new_bpm) \div 2
    /\ BAR_DURATION' = (TicksPerMinute \div new_bpm) * BEATS_PER_BAR

\* drum_thread.start(): the thread is at the head of its loop, with
\* eighth_note_count = 0.  History: ticks, the eighth notes it has fired;
\* after_stop, how many of them since a stop_jam that no start_jam has
\* followed
NewDrumThread ==
    [pc |-> "check", eighth_note_count |-> 0, wake |-> 0, ticks |-> <<>>,
     after_stop |-> 0]

\* start_jam(): the thread it starts is counted in drum_threads
start_jam ==
    /\ IF ~jam_running
       THEN /\ jam_start_time' = now
            /\ jam_running' = TRUE
            /\ drum_threads' = drum_threads + 1
            /\ drums' = Append([i \in DOMAIN drums |->
                                    [drums[i] EXCEPT !.after_stop = 0]],
                               NewDrumThread)
       ELSE UNCHANGED <<jam_start_time, jam_running, drum_threads, drums>>
    /\ UNCHANGED mixer_open

\* stop_jam(): jam_running.clear(); pygame.mixer.quit().  The drum thread is
\* not joined.
stop_jam ==
    /\ jam_running' = FALSE
    /\ mixer_open' = FALSE
    /\ UNCHANGED <<jam_start_time, drum_threads, drums>>

\* sorted(midi_events, key=lambda e: e['start_time']): a stable sort
RECURSIVE InsertByStart(_, _)
InsertByStart(e, s) ==
    IF s = <<>> THEN <<e>>
    ELSE IF Last(s).start_time <= e.start_time THEN Append(s, e)
    ELSE Append(InsertByStart(e, SubSeq(s, 1, Len(s) - 1)), Last(s))

RECURSIVE SortLoop(_, _, _)
SortLoop(src, i, acc) ==
    IF i > Len(src) THEN acc
    ELSE SortLoop(src, i + 1, InsertByStart(src[i], acc))

\* a plausible slip: the events played in the order given
Unsorted(lst) == lst

sorted(lst) == SortLoop(lst, 1, <<>>)

\* a plausible slip: the events not rebased
NotRebased(evs) == evs

\* base_time = events[0]['start_time']; event['start_time'] -= base_time
Normalize(evs) ==
    IF evs # <<>>
    THEN [i \in 1..Len(evs) |->
            [evs[i] EXCEPT !.start_time = evs[i].start_time - evs[1].start_time]]
    ELSE evs

\* a plausible slip: playback deferred whether the metronome runs or not
SetAlways(running) == TRUE

\* jam_running.is_set(), as the playback functions test it
IsSet(running) == running

\* a plausible slip: the two bars of waiting left out
BatchPlayTimeNextBar(t) ==
    jam_start_time + ((t - jam_start_time) \div BAR_DURATION + 1) * BAR_DURATION

\* send_midi_sequence: play_time, from time.time() = t
BatchPlayTime(t) ==
    LET time_since_start == t - jam_start_time
        current_bar == time_since_start \div BAR_DURATION
        next_bar_time == jam_start_time + (current_bar + 1) * BAR_DURATION
    IN  next_bar_time + 2 * BAR_DURATION

\* a plausible slip: the bar count rounded up, not rounded down and one added
StreamPlayTimeCeiling(t) ==
    jam_start_time
        + ((t - jam_start_time + BAR_DURATION - 1) \div BAR_DURATION) * BAR_DURATION

\* a plausible slip: the two bars of send_midi_sequence waited here too
StreamPlayTimeTwoBars(t) ==
    jam_start_time + ((t - jam_start_time) \div BAR_DURATION + 3) * BAR_DURATION

\* play_midi_events_streaming: play_time, from time.time() = t
StreamPlayTime(t) ==
    LET time_since_start == t - jam_start_time
        current_bar == time_since_start \div BAR_DURATION
    IN  jam_start_time + (current_bar + 1) * BAR_DURATION

\* a plausible slip: the distance to the target slept, whatever its sign
SleepAlways(wait_time) == Abs(wait_time)

\* if wait_time > 0: time.sleep(wait_time)
SleepFor(wait_time) == IF wait_time > 0 THEN wait_time ELSE 0

\* for note in notes: midiout.send_message([status_on, note, velocity])
NoteOns(ch, event, t, k) ==
    [j \in 1..Len(NoteList(event.note)) |->
        [status |-> StatusOn(ch), note |-> NoteList(event.note)[j],
         velocity |-> event.velocity, time |-> t, ev |-> k]]

\* a plausible slip: only the first note of a chord turned off
NoteOffsFirstOnly(ch, event, t, k) ==
    <<[status |-> StatusOff(ch), note |-> NoteList(event.note)[1],
       velocity |-> 0, time |-> t, ev |-> k]>>

\* for note in notes: midiout.send_message([status_off, note, 0])
NoteOffs(ch, event, t, k) ==
    [j \in 1..Len(NoteList(event.note)) |->
        [status |-> StatusOff(ch), note |-> NoteList(event.note)[j],
         velocity |-> 0, time |-> t, ev |-> k]]

callVars == <<pc, kind, synced, channel, midi_events, events, ev_i,
              sequence_start_time, zero_time, first_event_processed,
              zero_writes, wake, midi_log, t_call, received, arrivals,
              await_ticks>>
clockVars == <<BPM, BEAT_DURATION, EIGHTH_NOTE_DURATION, BAR_DURATION>>
jamVars == <<jam_running, jam_start_time, drum_threads, drums, mixer_open>>

\* ---- the caller, between calls (llmjam.py: main) ----

IdleTick ==
    /\ pc = "idle"
    /\ now < MaxIdle
    /\ now' = now + 1
    /\ UNCHANGED <<callVars, clockVars, jamVars>>

UpdateBpm ==
    /\ pc = "idle"
    /\ ~jam_running
    /\ \E new_bpm \in BpmChoices : update_bpm(new_bpm)
    /\ UNCHANGED <<now, callVars, jamVars>>

StartJam ==
    /\ pc = "idle"
    /\ start_jam
    /\ UNCHANGED <<now, callVars, clockVars>>

\* ---- send_midi_sequence and _play_unsynced ----

\* the head of the loop over the events, at time t: wait for the event's
\* start, or send its note-ons at once and hold it
BatchEvent(t) ==
    IF ev_i > Len(events')
    THEN /\ pc' = "returned"
         /\ UNCHANGED <<wake, midi_log>>
    ELSE LET event == events'[ev_i]
             wait_time == event.start_time - (t - sequence_start_time')
         IN  IF SleepFor(wait_time) > 0
             THEN /\ pc' = "b_wait"
                  /\ wake' = t + SleepFor(wait_time)
                  /\ UNCHANGED midi_log
             ELSE /\ midi_log' = midi_log \o NoteOns(channel', event, t, ev_i)
                  /\ pc' = "b_hold"
                  /\ wake' = t + event.duration

SendMidiSequence ==
    /\ pc = "idle"
    /\ \E n \in 0..MaxEvents : \E evs \in [1..n -> EventCatalog] :
          midi_events' = evs
    /\ \E ch \in Channels : channel' = ch
    /\ kind' = "batch"
    /\ t_call' = now
    /\ synced' = jam_running
    /\ IF ~IsSet(jam_running)
       THEN \* _play_unsynced
            /\ sequence_start_time' = now
            /\ events' = Normalize(sorted(midi_events'))
            /\ ev_i' = 1
            /\ BatchEvent(now)
       ELSE /\ IF BatchPlayTime(now) - now > 0
               THEN /\ pc' = "b_sync"
                    /\ wake' = BatchPlayTime(now)
                    /\ UNCHANGED <<events, ev_i, sequence_start_time, midi_log>>
               ELSE /\ sequence_start_time' = now
                    /\ events' = Normalize(sorted(midi_events'))
                    /\ ev_i' = 1
                    /\ BatchEvent(now)
    /\ UNCHANGED <<now, zero_time, first_event_processed, zero_writes,
                   received, arrivals, await_ticks, clockVars, jamVars>>

\* time.sleep(wait_for) returns: sort, rebase, start the sequence
BatchSynced ==
    /\ pc = "b_sync"
    /\ now' = wake
    /\ events' = Normalize(sorted(midi_events))
    /\ sequence_start_time' = now'
    /\ ev_i' = 1
    /\ UNCHANGED <<channel>>
    /\ BatchEvent(now')
    /\ UNCHANGED <<kind, synced, midi_events, zero_time,
                   first_event_processed, zero_writes, t_call, received,
                   arrivals, await_ticks, clockVars, jamVars>>

\* time.sleep(wait_time) returns: the note-ons, then the event is held
BatchOn ==
    /\ pc = "b_wait"
    /\ now' = wake
    /\ midi_log' = midi_log \o NoteOns(channel, events[ev_i], now', ev_i)
    /\ pc' = "b_hold"
    /\ wake' = now' + events[ev_i].duration
    /\ UNCHANGED <<kind, synced, channel, midi_events, events, ev_i,
                   sequence_start_time, zero_time, first_event_processed,
                   zero_writes, t_call, received, arrivals, await_ticks,
                   clockVars, jamVars>>

\* time.sleep(duration) returns: the note-offs, then the next event
BatchOff ==
    /\ pc = "b_hold"
    /\ now' = wake
    /\ ev_i' = ev_i + 1
    /\ UNCHANGED <<events, sequence_start_time, channel>>
    /\ LET offs == NoteOffs(channel, events[ev_i], now', ev_i)
       IN  IF ev_i' > Len(events)
           THEN /\ pc' = "returned"
                /\ midi_log' = midi_log \o offs
                /\ UNCHANGED wake
           ELSE LET event == events[ev_i']
                    wait_time == event.start_time - (now' - sequence_start_time)
                IN  IF SleepFor(wait_time) > 0
                    THEN /\ pc' = "b_wait"
                         /\ wake' = now' + SleepFor(wait_time)
                         /\ midi_log' = midi_log \o offs
                    ELSE /\ midi_log' = midi_log \o offs
                                        \o NoteOns(channel, event, now', ev_i')
                         /\ pc' = "b_hold"
                         /\ wake' = now' + event.duration
    /\ UNCHANGED <<kind, synced, midi_events, zero_time,
                   first_event_processed, zero_writes, t_call, received,
                   arrivals, await_ticks, clockVars, jamVars>>

\* ---- play_midi_events_streaming ----

PlayStreaming ==
    /\ pc = "idle"
    /\ \E ch \in Channels : channel' = ch
    /\ kind' = "stream"
    /\ t_call' = now
    /\ zero_time' = None
    /\ first_event_processed' = FALSE
    /\ pc' = "s_await"
    /\ UNCHANGED <<now, synced, midi_events, events, ev_i,
                   sequence_start_time, zero_writes, wake, midi_log, received,
                   arrivals, await_ticks, clockVars, jamVars>>

\* the iterator has not delivered yet
AwaitTick ==
    /\ pc = "s_await"
    /\ await_ticks < MaxLatency
    /\ now' = now + 1
    /\ await_ticks' = await_ticks + 1
    /\ UNCHANGED <<pc, kind, synced, channel, midi_events, events, ev_i,
                   sequence_start_time, zero_time, first_event_processed,
                   zero_writes, wake, midi_log, t_call, received, arrivals,
                   clockVars, jamVars>>

\* from "now = time.time()" on, for the event just received, at time t with
\* zero point z: wait for its target, or send its note-ons at once
StreamEvent(event, k, t, z) ==
    LET event_time == z + event.start_time
        wait_time == event_time - t
    IN  IF SleepFor(wait_time) > 0
        THEN /\ pc' = "s_wait"
             /\ wake' = t + SleepFor(wait_time)
             /\ UNCHANGED midi_log
        ELSE /\ midi_log' = midi_log \o NoteOns(channel, event, t, k)
             /\ pc' = "s_hold"
             /\ wake' = t + event.duration

\* the iterator yields an event
StreamYield ==
    /\ pc = "s_await"
    /\ Len(received) < MaxEvents
    /\ \E event \in EventCatalog :
        /\ received' = Append(received, event)
        /\ arrivals' = Append(arrivals, now)
        /\ IF ~first_event_processed
           THEN /\ synced' = jam_running
                /\ IF IsSet(jam_running) /\ StreamPlayTime(now) - now > 0
                   THEN /\ pc' = "s_sync"
                        /\ wake' = StreamPlayTime(now)
                        /\ UNCHANGED <<zero_time, first_event_processed,
                                       zero_writes, midi_log>>
                   ELSE /\ zero_time' = Some(now - event.start_time)
                        /\ first_event_processed' = TRUE
                        /\ zero_writes' = zero_writes + 1
                        /\ StreamEvent(event, Len(received'), now,
                                       Val(zero_time'))
           ELSE /\ StreamEvent(event, Len(received'), now, Val(zero_time))
                /\ UNCHANGED <<synced, zero_time, first_event_processed,
                               zero_writes>>
    /\ UNCHANGED <<now, kind, channel, midi_events, events, ev_i,
                   sequence_start_time, t_call, await_ticks, clockVars,
                   jamVars>>

\* time.sleep(wait_for) returns: the zero point is set, the first event played
StreamSynced ==
    /\ pc = "s_sync"
    /\ now' = wake
    /\ zero_time' = Some(now' - Last(received).start_time)
    /\ first_event_processed' = TRUE
    /\ zero_writes' = zero_writes + 1
    /\ StreamEvent(Last(received), Len(received), now', Val(zero_time'))
    /\ UNCHANGED <<kind, synced, channel, midi_events, events, ev_i,
                   sequence_start_time, t_call, received, arrivals,
                   await_ticks, clockVars, jamVars>>

\* time.sleep(wait_time) returns: the note-ons, then the event is held
StreamOn ==
    /\ pc = "s_wait"
    /\ now' = wake
    /\ midi_log' = midi_log \o NoteOns(channel, Last(received), now',
                                       Len(received))
    /\ pc' = "s_hold"
    /\ wake' = now' + Last(received).duration
    /\ UNCHANGED <<kind, synced, channel, midi_events, events, ev_i,
                   sequence_start_time, zero_time, first_event_processed,
                   zero_writes, t_call, received, arrivals, await_ticks,
                   clockVars, jamVars>>

\* time.sleep(duration) returns: the note-offs, then the next event is asked
StreamOff ==
    /\ pc = "s_hold"
    /\ now' = wake
    /\ midi_log' = midi_log \o NoteOffs(channel, Last(received), now',
                                        Len(received))
    /\ pc' = "s_await"
    /\ await_ticks' = 0
    /\ UNCHANGED <<kind, synced, channel, midi_events, events, ev_i,
                   sequence_start_time, zero_time, first_event_processed,
                   zero_writes, wake, t_call, received, arrivals, clockVars,
                   jamVars>>

\* the iterator is exhausted: the for loop ends
StreamEnd ==
    /\ pc = "s_await"
    /\ pc' = "returned"
    /\ UNCHANGED <<now, kind, synced, channel, midi_events, events, ev_i,
                   sequence_start_time, zero_time, first_event_processed,
                   zero_writes, wake, midi_log, t_call, received, arrivals,
                   await_ticks, clockVars, jamVars>>

\* the calls in which the main thread blocks during playback
Blocked == {"b_sync", "b_wait", "b_hold", "s_await", "s_sync", "s_wait",
            "s_hold"}

\* KeyboardInterrupt (Ctrl+C) while the main thread is in a playback call: the
\* exception is raised out of the blocking call; neither the playback
\* functions nor main catch it, so it ends the program.  The clock is not
\* read again.
Interrupt ==
    /\ pc \in Blocked
    /\ pc' = "interrupted"
    /\ UNCHANGED <<now, kind, synced, channel, midi_events, events, ev_i,
                   sequence_start_time, zero_time, first_event_processed,
                   zero_writes, wake, midi_log, t_call, received, arrivals,
                   await_ticks, clockVars, jamVars>>

PlayStart ==
    /\ now = 0
    /\ BPM = 95
    /\ BEAT_DURATION = TicksPerMinute \div 95
    /\ EIGHTH_NOTE_DURATION = (TicksPerMinute \div 95) \div 2
    /\ BAR_DURATION = (TicksPerMinute \div 95) * BEATS_PER_BAR
    /\ jam_running = FALSE
    /\ jam_start_time = 0
    /\ drum_threads = 0
    /\ drums = <<>>
    /\ mixer_open = TRUE
    /\ pc = "idle"
    /\ kind = "none"
    /\ synced = FALSE
    /\ channel = 0
    /\ midi_events = <<>>
    /\ events = <<>>
    /\ ev_i = 1
    /\ sequence_start_time = 0
    /\ zero_time = None
    /\ first_event_processed = FALSE
    /\ zero_writes = 0
    /\ wake = 0
    /\ midi_log = <<>>
    /\ t_call = 0
    /\ received = <<>>
    /\ arrivals = <<>>
    /\ await_ticks = 0

PlayNext ==
    \/ IdleTick
    \/ UpdateBpm
    \/ StartJam
    \/ SendMidiSequence
    \/ BatchSynced
    \/ BatchOn
    \/ BatchOff
    \/ PlayStreaming
    \/ AwaitTick
    \/ StreamYield
    \/ StreamSynced
    \/ StreamOn
    \/ StreamOff
    \/ StreamEnd
    \/ Interrupt

\* ---- the metronome: drum_beat_loop threads and the calls around them ----

\* a plausible slip: the loop never looks at jam_running
WhileTrue(running) == TRUE

\* while jam_running.is_set()
WhileRunning(running) == running

\* a plausible slip: the next deadline counted from the present time
NextEventTimeFromNow(eighth_note_count) ==
    IF eighth_note_count = 0 THEN jam_start_time
    ELSE now + EIGHTH_NOTE_DURATION

\* next_event_time = jam_start_time + eighth_note_count * EIGHTH_NOTE_DURATION
NextEventTime(eighth_note_count) ==
    jam_start_time + eighth_note_count * EIGHTH_NOTE_DURATION

\* a plausible slip: the beat taken from the eighth note count, not its half
AccentByEighth(eighth_note_count) ==
    IF eighth_note_count % 2 = 0
    THEN LET beat_in_bar == eighth_note_count % BEATS_PER_BAR
         IN  IF beat_in_bar \in {0, 2} THEN "kick" ELSE "snare"
    ELSE "none"

\* lines 67-76: the sound played with the hi-hat
Accent(eighth_note_count) ==
    IF eighth_note_count % 2 = 0
    THEN LET beat_in_bar == (eighth_note_count \div 2) % BEATS_PER_BAR
         IN  IF beat_in_bar \in {0, 2} THEN "kick" ELSE "snare"
    ELSE "none"

\* lines 64-76: the sounds of eighth note eighth_note_count, in order
Sounds(eighth_note_count) ==
    <<"hihat">> \o (IF Accent(eighth_note_count) = "none" THEN <<>>
                    ELSE <<Accent(eighth_note_count)>>)

Live(i) == drums[i].pc \in {"check", "compute", "sleep"}

\* a thread that has code to run (the bound on its eighth notes apart)
RunnableUpTo(i, limit) ==
    \/ drums[i].pc = "compute"
    \/ drums[i].pc = "check" /\ (drums[i].eighth_note_count < limit
                                  \/ ~jam_running)

Runnable(i) == RunnableUpTo(i, MaxTicks)

\* the time passes, for all threads, while no drum thread has code to run; a
\* time.sleep in progress returns at its deadline or up to MaxLate later
TickUpTo(limit) ==
    /\ now < MaxTime \/ \E i \in DOMAIN drums : drums[i].pc = "sleep"
    /\ \A i \in DOMAIN drums :
          /\ ~RunnableUpTo(i, limit)
          /\ drums[i].pc = "sleep" => now < drums[i].wake + MaxLate
    /\ now' = now + 1
    /\ UNCHANGED <<clockVars, jamVars, metroVars>>

JamTick == TickUpTo(MaxTicks)

JamStart ==
    /\ jam_running \/ drum_threads < MaxStarts
    /\ now <= MaxTime
    /\ start_jam
    /\ UNCHANGED <<now, clockVars, upd, rd>>

JamStop ==
    /\ now <= MaxTime
    /\ stop_jam
    /\ UNCHANGED <<now, clockVars, upd, rd>>

\* line 54: the loop condition
DrumCheckUpTo(i, limit) ==
    /\ drums[i].pc = "check"
    /\ IF WhileRunning(jam_running)
       THEN /\ drums[i].eighth_note_count < limit
            /\ drums' = [drums EXCEPT ![i].pc = "compute"]
       ELSE drums' = [drums EXCEPT ![i].pc = "done"]
    /\ UNCHANGED <<now, clockVars, jam_running, jam_start_time, drum_threads,
                   mixer_open, metroVars>>

DrumCheck(i) == DrumCheckUpTo(i, MaxTicks)

\* lines 64-78: the sounds of one eighth note, then eighth_note_count += 1.
\* With the mixer shut down by stop_jam, Sound.play() may raise and end the
\* thread: both outcomes are kept.
Fire(i) ==
    LET n == drums[i].eighth_note_count
        played ==
            drums' = [drums EXCEPT
                ![i].pc = "check",
                ![i].eighth_note_count = n + 1,
                ![i].ticks = Append(@,
                    [n |-> n, time |-> now,
                     deadline |-> IF drums[i].pc = "sleep" THEN drums[i].wake
                                  ELSE NextEventTime(n),
                     sounds |-> Sounds(n)]),
                ![i].after_stop = IF jam_running THEN @ ELSE @ + 1]
        raised ==
            drums' = [drums EXCEPT ![i].pc = "crashed"]
    IN  IF mixer_open THEN played ELSE played \/ raised

\* lines 56-61: the deadline of the eighth note; a sleep if it is ahead
DrumCompute(i) ==
    /\ drums[i].pc = "compute"
    /\ LET next_event_time == NextEventTime(drums[i].eighth_note_count)
           sleep_time == next_event_time - now
       IN  IF sleep_time > 0
           THEN drums' = [drums EXCEPT ![i].pc = "sleep",
                                       ![i].wake = next_event_time]
           ELSE Fire(i)
    /\ UNCHANGED <<now, clockVars, jam_running, jam_start_time, drum_threads,
                   mixer_open, upd, rd>>

\* time.sleep(sleep_time) returns
DrumWake(i) ==
    /\ drums[i].pc = "sleep"
    /\ now >= drums[i].wake
    /\ Fire(i)
    /\ UNCHANGED <<now, clockVars, jam_running, jam_start_time, drum_threads,
                   mixer_open, upd, rd>>

DrumStep == \E i \in DOMAIN drums : DrumCheck(i) \/ DrumCompute(i) \/ DrumWake(i)

\* ---- a jam that is started and left alone ----

PatternTick == TickUpTo(MaxCount)

PatternStep ==
    \E i \in DOMAIN drums :
        DrumCheckUpTo(i, MaxCount) \/ DrumCompute(i) \/ DrumWake(i)

\* ---- update_bpm, statement by statement, in a thread of its own ----

\* line 271: BPM = float(new_bpm)
UpdCall ==
    /\ upd.pc = 0
    /\ upd.calls < MaxUpdates
    /\ now <= MaxTime
    /\ \E new_bpm \in BpmChoices : BPM' = new_bpm
    /\ upd' = [pc |-> 1, calls |-> upd.calls + 1]
    /\ UNCHANGED <<now, BEAT_DURATION, EIGHTH_NOTE_DURATION, BAR_DURATION,
                   jamVars, rd>>

\* lines 272, 273, 274: one derived duration per step
UpdStep ==
    /\ upd.pc \in {1, 2, 3}
    /\ CASE upd.pc = 1 ->
              /\ BEAT_DURATION' = TicksPerMinute \div BPM
              /\ UNCHANGED <<EIGHTH_NOTE_DURATION, BAR_DURATION>>
         [] upd.pc = 2 ->
              /\ EIGHTH_NOTE_DURATION' = BEAT_DURATION \div 2
              /\ UNCHANGED <<BEAT_DURATION, BAR_DURATION>>
         [] upd.pc = 3 ->
              /\ BAR_DURATION' = BEAT_DURATION * BEATS_PER_BAR
              /\ UNCHANGED <<BEAT_DURATION, EIGHTH_NOTE_DURATION>>
    /\ upd' = [upd EXCEPT !.pc = (upd.pc + 1) % 4]
    /\ UNCHANGED <<now, BPM, jamVars, rd>>

\* ---- the syncing logic of send_midi_sequence, statement by statement ----

\* lines 110, 123, 124: the metronome runs; current_bar
ReadCall ==
    /\ rd.pc = "idle"
    /\ IsSet(jam_running)
    /\ rd' = [rd EXCEPT !.pc = "r126",
                        !.current_bar = (now - jam_start_time) \div BAR_DURATION,
                        !.bars = <<BAR_DURATION>>]
    /\ UNCHANGED <<now, clockVars, jamVars, upd>>

\* line 126: next_bar_time; line 127: play_time
ReadStep ==
    /\ rd.pc \in {"r126", "r127"}
    /\ IF rd.pc = "r126"
       THEN rd' = [rd EXCEPT
                !.pc = "r127",
                !.next_bar_time =
                    jam_start_time + (rd.current_bar + 1) * BAR_DURATION,
                !.bars = Append(@, BAR_DURATION)]
       ELSE rd' = [rd EXCEPT
                !.pc = "done",
                !.play_time = rd.next_bar_time + 2 * BAR_DURATION,
                !.bars = Append(@, BAR_DURATION)]
    /\ UNCHANGED <<now, clockVars, jamVars, upd>>

\* the metronome: its threads, the calls that start and stop it, the tempo
MetroNext ==
    \/ JamTick
    \/ JamStart
    \/ JamStop
    \/ DrumStep
    \/ UpdateBpm /\ drums = <<>> /\ UNCHANGED metroVars

\* main's use of the metronome: update_bpm, then start_jam, never stop_jam
PatternNext ==
    \/ PatternTick
    \/ JamStart
    \/ PatternStep
    \/ UpdateBpm /\ drums = <<>> /\ UNCHANGED metroVars

\* the tempo: update_bpm in one thread, the syncing logic in another
TempoNext ==
    \/ JamStart
    \/ UpdCall
    \/ UpdStep
    \/ ReadCall
    \/ ReadStep

MetroStart ==
    /\ upd = [pc |-> 0, calls |-> 0]
    /\ rd = [pc |-> "idle", current_bar |-> 0, next_bar_time |-> 0,
             play_time |-> 0, bars |-> <<>>]

----------------------------------------------------------------------------
(* The epoch: start_jam statement by statement, against a reader *)

\* a plausible slip: jam_running set before the epoch is written
StartJamSetFirst(k) ==
    CASE k = 1 -> "set" [] k = 2 -> "epoch" [] k = 3 -> "thread"

\* lines 85-89: the statements of start_jam under its test, in order
StartJamStep(k) ==
    CASE k = 1 -> "epoch" [] k = 2 -> "set" [] k = 3 -> "thread"

\* the time passes
EpochTick ==
    /\ now < MaxEpochTime
    /\ now' = now + 1
    /\ UNCHANGED <<jamVars, epochVars>>

\* start_jam() is called
StartCall ==
    /\ sj.pc = "idle"
    /\ sj.calls < MaxCalls
    /\ sj' = [sj EXCEPT !.pc = "test", !.calls = @ + 1]
    /\ UNCHANGED <<now, jamVars, er, epoch_log>>

\* line 84: if not jam_running.is_set()
StartTest ==
    /\ sj.pc = "test"
    /\ sj' = [sj EXCEPT !.pc = IF ~IsSet(jam_running) THEN "run" ELSE "idle",
                        !.step = 1]
    /\ UNCHANGED <<now, jamVars, er, epoch_log>>

\* lines 85-89, one statement
StartStep ==
    /\ sj.pc = "run"
    /\ CASE StartJamStep(sj.step) = "epoch" ->
              /\ jam_start_time' = now
              /\ epoch_log' = Append(epoch_log, now)
              /\ UNCHANGED <<jam_running, drum_threads, drums>>
         [] StartJamStep(sj.step) = "set" ->
              /\ jam_running' = TRUE
              /\ UNCHANGED <<jam_start_time, drum_threads, drums, epoch_log>>
         [] StartJamStep(sj.step) = "thread" ->
              /\ drum_threads' = drum_threads + 1
              /\ drums' = Append(drums, NewDrumThread)
              /\ UNCHANGED <<jam_start_time, jam_running, epoch_log>>
    /\ sj' = IF sj.step = 3 THEN [sj EXCEPT !.pc = "idle", !.step = 1]
             ELSE [sj EXCEPT !.step = @ + 1]
    /\ UNCHANGED <<now, mixer_open, er>>

\* stop_jam(), by the same thread
StopCall ==
    /\ sj.pc = "idle"
    /\ sj.calls < MaxCalls
    /\ stop_jam
    /\ sj' = [sj EXCEPT !.calls = @ + 1]
    /\ UNCHANGED <<now, er, epoch_log>>

\* a reader tests jam_running.is_set(): drum_beat_loop line 54,
\* send_midi_sequence line 110, play_midi_events_streaming line 221
ReadFlag ==
    /\ er.pc = "idle"
    /\ er.reads < MaxReads
    /\ er' = [er EXCEPT !.pc = IF IsSet(jam_running) THEN "synced" ELSE "idle",
                        !.reads = @ + 1]
    /\ UNCHANGED <<now, jamVars, sj, epoch_log>>

\* and, having found it set, reads jam_start_time: lines 56, 123, 223.
\* History: writes, the assignments to jam_start_time made before the read
ReadEpoch ==
    /\ er.pc = "synced"
    /\ er' = [er EXCEPT !.pc = "idle", !.got = TRUE,
                        !.epoch = jam_start_time,
                        !.writes = Len(epoch_log)]
    /\ UNCHANGED <<now, jamVars, sj, epoch_log>>

EpochStart ==
    /\ sj = [pc |-> "idle", step |-> 1, calls |-> 0]
    /\ er = [pc |-> "idle", reads |-> 0, got |-> FALSE, epoch |-> 0,
             writes |-> 0]
    /\ epoch_log = <<>>

EpochNext ==
    \/ EpochTick
    \/ StartCall
    \/ StartTest
    \/ StartStep
    \/ StopCall
    \/ ReadFlag
    \/ ReadEpoch

----------------------------------------------------------------------------
(* Wire format: llm_client.py *)

DigitChar(d) ==
    CASE d = 0 -> "0" [] d = 1 -> "1" [] d = 2 -> "2" [] d = 3 -> "3"
      [] d = 4 -> "4" [] d = 5 -> "5" [] d = 6 -> "6" [] d = 7 -> "7"
      [] d = 8 -> "8" [] d = 9 -> "9"

\* the decimal digits of n >= 0
RECURSIVE NatStr(_)
NatStr(n) ==
    IF n < 10 THEN <<DigitChar(n)>>
    ELSE NatStr(n \div 10) \o <<DigitChar(n % 10)>>

\* the k decimal digits of n, zeros in front
RECURSIVE Padded(_, _)
Padded(n, k) ==
    IF k = 0 THEN <<>> ELSE Padded(n \div 10, k - 1) \o <<DigitChar(n % 10)>>

\* how many digits follow the point: den = 10^k
RECURSIVE Log10(_)
Log10(den) == IF den <= 1 THEN 0 ELSE 1 + Log10(den \div 10)

\* str(n) of an int
IntStr(n) == IF n < 0 THEN <<"-">> \o NatStr(-n) ELSE NatStr(n)

\* str(x) of a float in positional notation: at least one digit after the
\* point (exponent notation is outside the values of the model)
FloatStr(x) ==
    LET mag == Abs(x.num)
        frac == IF x.den = 1 THEN <<"0">>
                ELSE Padded(mag % x.den, Log10(x.den))
    IN  (IF x.num < 0 THEN <<"-">> ELSE <<>>)
            \o NatStr(mag \div x.den) \o <<".">> \o frac

\* sep.join(parts)
RECURSIVE Join(_, _)
Join(parts, sep) ==
    IF parts = <<>> THEN <<>>
    ELSE IF Len(parts) = 1 THEN parts[1]
    ELSE parts[1] \o sep \o Join(SubSeq(parts, 2, Len(parts)), sep)

\* a plausible slip: the notes of a chord joined with the field separator
NotesStrComma(note) ==
    Join([i \in DOMAIN note.ns |-> IntStr(note.ns[i])], <<",">>)

\* notes_str: '|'.join(str(n) for n in notes) for a list, else str(notes)
NotesStr(note) ==
    IF note.is_list
    THEN Join([i \in DOMAIN note.ns |-> IntStr(note.ns[i])], <<"|">>)
    ELSE IntStr(note.ns[1])

\* f"{notes_str},{velocity},{start_time},{duration}"
EventLine(e) ==
    NotesStr(e.note) \o <<",">> \o IntStr(e.velocity) \o <<",">>
        \o FloatStr(e.start_time) \o <<",">> \o FloatStr(e.duration)

\* midi_events_to_csv(midi_events): '\n'.join(lines)
midi_events_to_csv(evs) ==
    Join([i \in DOMAIN evs |-> EventLine(evs[i])], <<"\n">>)

\* the events given to the encoder: a note, a chord, a list of one note
WireNotes == {One(6), Chord(<<6, 7>>), Chord(<<60>>)}
WireVelocities == {9, 100}
WireTimes == {Lowest(0, 1), Lowest(125, 100)}
WireEvents ==
    [note : WireNotes, velocity : WireVelocities, start_time : WireTimes,
     duration : {Lowest(5, 10), Lowest(2, 1)}]

\* csv = midi_events_to_csv(events)
Encode ==
    /\ wire_csv = None
    /\ wire_csv' = Some(midi_events_to_csv(wire_events))
    /\ UNCHANGED <<wire_events, wire_back>>

\* csv_to_midi_events(csv): the events, or "raised" for ValueError
Decode ==
    /\ wire_csv # None
    /\ wire_back = None
    /\ LET r == csv_to_midi_events(Val(wire_csv))
       IN  wire_back' = Some(IF r.raised THEN "raised" ELSE r.events)
    /\ UNCHANGED <<wire_events, wire_csv>>

WireStart ==
    /\ wire_events = <<>>
    /\ wire_csv = None
    /\ wire_back = None

WireNext == Encode \/ Decode

----------------------------------------------------------------------------
(* Session: llmjam.py *)

\* stop_flag = False, never assigned again
stop_flag == FALSE

\* the styles: the initial one and a phrase typed at the listener's prompt
Styles == {"mellow", "bright"}

\* the results of streaming_midi.get_midi_events() in a round
CaptureResults ==
    {<<>>, <<[note |-> 60, start_time |-> 0, duration |-> 2]>>}

\* midi_output.setup_output_midi(create=args.create): opens the MIDI port
\* and returns
setup_output_midi == TRUE

\* the record of a round that captured input
NewRound(input) ==
    [midi_input |-> input, called |-> FALSE, style_at_call |-> None,
     sent |-> None, played |-> 0, failed |-> FALSE]

\* the history of the current round with field f set to v
Noted(f, v) == [rounds EXCEPT ![Len(rounds)] = [@ EXCEPT ![f] = v]]

\* a plausible slip: only a missing list sends main back to capturing
IsNone(input) == FALSE

\* if not midi_input
IsEmpty(input) == input = <<>>

\* a plausible slip: the prompt formatted from the global
PromptStyleGlobal(param, global) == global

\* system_prompt.format(playing_style=playing_style, ...): the parameter
PromptStyle(param, global) == param

\* lines 61-73: the port, the tempo, the metronome, the listener thread
SessionSetup ==
    /\ main_pc = "setup"
    /\ setup_output_midi
    /\ \E bpm \in BpmChoices : update_bpm(bpm)
    /\ start_jam
    /\ main_pc' = "capture"
    /\ UNCHANGED <<playing_style, midi_input, midi_event_stream, rounds>>

\* lines 79-96: the head of the loop, the capture, get_midi_events
Capture ==
    /\ main_pc = "capture"
    /\ ~stop_flag
    /\ Len(rounds) < MaxRounds
    /\ \E r \in CaptureResults :
          /\ midi_input' = r
          /\ rounds' = Append(rounds, NewRound(r))
    /\ main_pc' = "check"
    /\ UNCHANGED <<playing_style, midi_event_stream, clockVars, jamVars>>

\* lines 97-99: if not midi_input: continue
CheckInput ==
    /\ main_pc = "check"
    /\ main_pc' = IF IsEmpty(midi_input) THEN "capture" ELSE "call"
    /\ UNCHANGED <<playing_style, midi_input, midi_event_stream, rounds,
                   clockVars, jamVars>>

\* lines 102-108: the call of the generator function binds its arguments and
\* runs none of its body; play_midi_events_streaming is entered
CallSource ==
    /\ main_pc = "call"
    /\ midi_event_stream' =
          Some([playing_style |-> playing_style, started |-> FALSE,
                yields |-> 0])
    /\ rounds' = [rounds EXCEPT ![Len(rounds)] =
                     [@ EXCEPT !.called = TRUE,
                               !.style_at_call = Some(playing_style)]]
    /\ main_pc' = "play"
    /\ UNCHANGED <<playing_style, midi_input, clockVars, jamVars>>

\* the first next() of the for loop runs the generator up to the request:
\* llm_client.py lines 126-189
GenStart ==
    /\ main_pc = "play"
    /\ ~Val(midi_event_stream).started
    /\ midi_event_stream' =
          Some([Val(midi_event_stream) EXCEPT !.started = TRUE])
    /\ rounds' = Noted("sent",
                       Some(PromptStyle(Val(midi_event_stream).playing_style,
                                        playing_style)))
    /\ UNCHANGED <<main_pc, playing_style, midi_input, clockVars, jamVars>>

\* the generator yields an event and play_midi_events_streaming plays it
GenYield ==
    /\ main_pc = "play"
    /\ Val(midi_event_stream).started
    /\ Val(midi_event_stream).yields < MaxYield
    /\ midi_event_stream' =
          Some([Val(midi_event_stream) EXCEPT !.yields = @ + 1])
    /\ rounds' = Noted("played", rounds[Len(rounds)].played + 1)
    /\ UNCHANGED <<main_pc, playing_style, midi_input, clockVars, jamVars>>

\* the response ends: the generator returns, play_midi_events_streaming
\* returns
GenEnd ==
    /\ main_pc = "play"
    /\ Val(midi_event_stream).started
    /\ midi_event_stream' = None
    /\ main_pc' = "pause"
    /\ UNCHANGED <<playing_style, midi_input, rounds, clockVars, jamVars>>

\* the text source fails: "for chunk in response" raises in the generator,
\* outside its try; nothing in play_midi_events_streaming or main catches it
GenRaise ==
    /\ main_pc = "play"
    /\ Val(midi_event_stream).started
    /\ midi_event_stream' = None
    /\ rounds' = Noted("failed", TRUE)
    /\ main_pc' = "raised"
    /\ UNCHANGED <<playing_style, midi_input, clockVars, jamVars>>

\* line 109: time.sleep(0.5), then the head of the loop
Pause ==
    /\ main_pc = "pause"
    /\ main_pc' = "capture"
    /\ UNCHANGED <<playing_style, midi_input, midi_event_stream, rounds,
                   clockVars, jamVars>>

\* the listener thread: playing_style = phrase
SetStyle ==
    /\ main_pc \notin {"setup", "raised"}
    /\ \E phrase \in Styles : playing_style' = phrase
    /\ UNCHANGED <<main_pc, midi_input, midi_event_stream, rounds,
                   clockVars, jamVars>>

SessStart ==
    /\ main_pc = "setup"
    /\ playing_style = "mellow"
    /\ midi_input = <<>>
    /\ midi_event_stream = None
    /\ rounds = <<>>

SessNext ==
    \/ SessionSetup
    \/ Capture
    \/ CheckInput
    \/ CallSource
    \/ GenStart
    \/ GenYield
    \/ GenEnd
    \/ GenRaise
    \/ Pause
    \/ SetStyle

----------------------------------------------------------------------------
(* Specifications *)

SegInit ==
    /\ SegStart
    /\ DecStart /\ text = <<>>
    /\ PlayStart
    /\ MetroStart
    /\ SessStart
    /\ WireStart
    /\ EpochStart

SegSpec ==
    SegInit /\ [][SegNext /\ UNCHANGED <<decVars, playVars, metroVars, sessVars, wireVars,
                    epochVars>>]_vars

DecInit ==
    /\ DecStart /\ text \in Responses
    /\ SegStart
    /\ PlayStart
    /\ MetroStart
    /\ SessStart
    /\ WireStart
    /\ EpochStart

DecSpec ==
    DecInit /\ [][DecNext /\ UNCHANGED <<segVars, playVars, metroVars, sessVars, wireVars,
                    epochVars>>]_vars

PlayInit ==
    /\ PlayStart
    /\ SegStart
    /\ DecStart /\ text = <<>>
    /\ MetroStart
    /\ SessStart
    /\ WireStart
    /\ EpochStart

MetroInit ==
    /\ MetroStart
    /\ SessStart
    /\ WireStart
    /\ EpochStart
    /\ PlayStart
    /\ SegStart
    /\ DecStart /\ text = <<>>

MetroSpec ==
    MetroInit /\ [][MetroNext /\ UNCHANGED <<segVars, decVars, callVars, sessVars, wireVars,
                    epochVars>>]_vars

\* the threads are scheduled and the time passes
MetroFairSpec ==
    /\ MetroSpec
    /\ WF_vars(DrumStep /\ UNCHANGED <<segVars, decVars, callVars, sessVars, wireVars,
                                    epochVars>>)
    /\ WF_vars(JamTick /\ UNCHANGED <<segVars, decVars, callVars, sessVars, wireVars,
                                    epochVars>>)

PatternSpec ==
    MetroInit /\ [][PatternNext /\ UNCHANGED <<segVars, decVars, callVars, sessVars, wireVars,
                    epochVars>>]_vars

TempoSpec ==
    MetroInit /\ [][TempoNext /\ UNCHANGED <<segVars, decVars, callVars, sessVars, wireVars,
                    epochVars>>]_vars

EpochSpec ==
    PlayInit /\ [][EpochNext /\ UNCHANGED <<segVars, decVars, callVars,
                                            clockVars, metroVars, sessVars,
                                            wireVars>>]_vars

WireInit ==
    /\ wire_events \in UNION {[1..n -> WireEvents] : n \in 0..MaxWire}
    /\ wire_csv = None
    /\ wire_back = None
    /\ SegStart
    /\ DecStart /\ text = <<>>
    /\ PlayStart
    /\ MetroStart
    /\ SessStart
    /\ EpochStart

WireSpec ==
    WireInit /\ [][WireNext /\ UNCHANGED <<segVars, decVars, playVars,
                                           metroVars, sessVars,
                                           epochVars>>]_vars

SessSpec ==
    PlayInit /\ [][SessNext /\ UNCHANGED <<segVars, decVars, metroVars, now,
                                          callVars, wireVars,
                                          epochVars>>]_vars

PlaySpec ==
    PlayInit /\ [][PlayNext /\ UNCHANGED <<segVars, decVars, metroVars, sessVars, wireVars,
                    epochVars>>]_vars

-----
(* C1: chunking invariance of the segmenter.  Whatever the split of a frame *)
(* sequence into blocks handed to process_block, the first get_midi_events  *)
(* returns the note list audio_to_midi computes on the unsplit sequence.    *)
C1_ChunkingInvariance ==
    Len(seg_returns) >= 1 => seg_returns[1] = audio_to_midi(fed)

\* a note opened in one block was closed by a frame of a later block, and the
\* note still active after the last frame was committed by the flush
C1_Witness ==
    /\ Len(seg_returns) = 1
    /\ carried
    /\ Len(seg_returns[1]) >= 2
    /\ Last(fed).conf >= threshold /\ Last(fed).midi <= Semis(127)
    /\ Last(seg_returns[1]).start_time < Last(fed).t

----------------------------------------------------------------------------
\* the text of a response up to its last newline, as its lines
TerminatedLines(txt) ==
    LET parts == Split(txt, "\n") IN SubSeq(parts, 1, Len(parts) - 1)

\* the text after the last newline
UnterminatedTail(txt) ==
    LET parts == Split(txt, "\n") IN parts[Len(parts)]

RECURSIVE EventsOfLines(_, _)
EventsOfLines(ls, i) ==
    IF i > Len(ls) THEN <<>>
    ELSE LineEvents(ls[i]) \o EventsOfLines(ls, i + 1)

WellFormedLine(raw) ==
    LET parts == Split(Strip(raw), ",")
    IN  /\ Len(parts) = 4
        /\ ParseNotes(parts[1]).ok
        /\ PyInt(parts[2]).ok
        /\ PyFloat(parts[3]).ok
        /\ PyFloat(parts[4]).ok

EventOfLine(raw) ==
    LET parts == Split(Strip(raw), ",")
    IN  [note |-> ParseNotes(parts[1]).val, velocity |-> PyInt(parts[2]).val,
         start_time |-> PyFloat(parts[3]).val,
         duration |-> PyFloat(parts[4]).val]

RECURSIVE WellFormedEvents(_, _)
WellFormedEvents(ls, i) ==
    IF i > Len(ls) THEN <<>>
    ELSE (IF WellFormedLine(ls[i]) THEN <<EventOfLine(ls[i])>> ELSE <<>>)
         \o WellFormedEvents(ls, i + 1)

(* C3: a malformed line (wrong field count, non-numeric field) yields no   *)
(* event, and every well-formed line of the stream yields its event: the   *)
(* events yielded are exactly those of the well-formed lines.              *)
C3_MalformedDropped ==
    dec_pc = "closed" =>
        yielded = WellFormedEvents(TerminatedLines(text), 1)

(* C4: text left in the buffer when the stream ends, not terminated by a   *)
(* newline, is discarded: it is never emitted, even when it is a           *)
(* well-formed line.                                                       *)
C4_TailDiscarded ==
    dec_pc = "closed" =>
        /\ buffer = UnterminatedTail(text)
        /\ Len(yielded) = Len(EventsOfLines(TerminatedLines(text), 1))
        /\ \A i \in 1..Len(yielded) :
              yielded[i] = EventsOfLines(TerminatedLines(text), 1)[i]

\* the stream ended with a well-formed line in the buffer
C4_Witness ==
    /\ dec_pc = "closed"
    /\ WellFormedLine(buffer)
    /\ Len(yielded) >= 1

----------------------------------------------------------------------------
(* Playback claims *)

\* the first bar boundary jam_start_time + k * BAR_DURATION strictly after t
FirstBarAfter(t) ==
    CHOOSE b \in {jam_start_time + k * BAR_DURATION : k \in 0..(t + 1)} :
        b > t /\ b - BAR_DURATION <= t

\* the events of the call, in the order in which they are played
Played == IF kind = "batch" THEN events ELSE received

\* the start_time of the event a message belongs to
StartOf(m) == Played[m.ev].start_time

(* C5: batch bar quantization.  With the metronome running,                *)
(* send_midi_sequence called at time t sends its first note-on at          *)
(* B + 2 * BAR_DURATION, B the first bar boundary strictly after t, and no *)
(* message earlier.                                                        *)
C5_BatchQuantized ==
    (kind = "batch" /\ synced) =>
        /\ pc = "b_sync" => wake = FirstBarAfter(t_call) + 2 * BAR_DURATION
        /\ midi_log # <<>> =>
              /\ IsOn(midi_log[1])
              /\ midi_log[1].time = FirstBarAfter(t_call) + 2 * BAR_DURATION
        /\ \A i \in DOMAIN midi_log :
              midi_log[i].time >= FirstBarAfter(t_call) + 2 * BAR_DURATION

\* a batch handed over in the middle of a later bar has sent its first note-on
C5_Witness ==
    /\ kind = "batch" /\ synced
    /\ midi_log # <<>>
    /\ t_call > jam_start_time + BAR_DURATION

(* C6: stream quantization.  With the metronome running, the zero point is *)
(* set once, for the first event; the first note-on is sent at the first   *)
(* bar boundary strictly after the first event's arrival, with no two bars *)
(* added; every later event is sent at zero point + start_time, or on      *)
(* arrival when that is later, the zero point staying what it was.         *)
C6_StreamQuantized ==
    (kind = "stream" /\ synced) =>
        /\ zero_writes <= 1
        /\ zero_writes = 1 <=> zero_time # None
        /\ zero_time # None =>
              Val(zero_time) = FirstBarAfter(arrivals[1]) - received[1].start_time
        /\ midi_log # <<>> =>
              /\ IsOn(midi_log[1])
              /\ midi_log[1].time = FirstBarAfter(arrivals[1])
        /\ \A i \in DOMAIN midi_log :
              (IsOn(midi_log[i]) /\ midi_log[i].ev > 1) =>
                  midi_log[i].time =
                      Max(arrivals[midi_log[i].ev],
                          Val(zero_time) + StartOf(midi_log[i]))

\* a second event of a quantized stream was sent at zero point + start_time,
\* after a wait
C6_Witness ==
    /\ kind = "stream" /\ synced
    /\ arrivals # <<>> /\ arrivals[1] > jam_start_time
    /\ \E i \in DOMAIN midi_log :
          /\ IsOn(midi_log[i]) /\ midi_log[i].ev = 2
          /\ midi_log[i].time > arrivals[2]

\* the messages of kind on (TRUE) or off (FALSE) sent for note j of event k
Sent(k, j, on) ==
    {i \in DOMAIN midi_log :
        /\ midi_log[i].ev = k
        /\ IsOn(midi_log[i]) = on
        /\ midi_log[i].note = NoteList(received[k].note)[j]}

(* C7: no event of a stream is dropped.  When play_midi_events_streaming   *)
(* returns, every event received has had one note-on and one note-off for  *)
(* each of its notes; an event whose target zero point + start_time has    *)
(* passed when it arrives is sent on arrival, without a wait.              *)
C7_NoEventDropped ==
    kind = "stream" =>
        /\ \A k \in 1..Len(received) :
              \A j \in 1..Len(NoteList(received[k].note)) :
                /\ Cardinality(Sent(k, j, TRUE)) <= 1
                /\ Cardinality(Sent(k, j, FALSE)) <= 1
                /\ (pc = "returned" \/ k < Len(received)) =>
                      /\ Cardinality(Sent(k, j, TRUE)) = 1
                      /\ Cardinality(Sent(k, j, FALSE)) = 1
        /\ \A k \in 2..Len(received) :
              Val(zero_time) + received[k].start_time <= arrivals[k] =>
                  /\ pc # "s_wait"
                  /\ \A j \in 1..Len(NoteList(received[k].note)) :
                        \A i \in Sent(k, j, TRUE) :
                            midi_log[i].time = arrivals[k]

\* a stream has returned whose second event arrived after its target time
C7_Witness ==
    /\ kind = "stream" /\ pc = "returned"
    /\ Len(received) = 2
    /\ Val(zero_time) + received[2].start_time < arrivals[2]

(* C8: every event of a batch has its note-on at                           *)
(* playback_epoch + start_time and its note-off duration later.            *)
C8_OnAtStartTime ==
    kind = "batch" =>
        \A i \in DOMAIN midi_log :
            LET e == events[midi_log[i].ev]
            IN  midi_log[i].time =
                    IF IsOn(midi_log[i])
                    THEN sequence_start_time + e.start_time
                    ELSE sequence_start_time + e.start_time + e.duration

\* the messages are sent in nondecreasing start_time order of their events
InStartOrder ==
    \A i, j \in DOMAIN midi_log : i < j => StartOf(midi_log[i]) <= StartOf(midi_log[j])

(* C9, as claimed: in a batch and in a stream the note-on/note-off pairs   *)
(* are sent in nondecreasing start_time order, whatever the input order.   *)
C9_StartOrderAlways ==
    kind \in {"batch", "stream"} => InStartOrder

(* C9, amended: in a batch the pairs are sent in nondecreasing start_time  *)
(* order whatever the order of the list given; in a stream they are sent   *)
(* in the order in which the events arrive.                                *)
C9_EmissionOrder ==
    /\ kind = "batch" =>
          /\ InStartOrder
          /\ pc \in {"b_wait", "b_hold", "returned"} =>
                \E f \in [1..Len(events) -> 1..Len(events)] :
                    /\ \A a, b \in 1..Len(events) : a # b => f[a] # f[b]
                    /\ \A a \in 1..Len(events) :
                          events[a] =
                              [midi_events[f[a]] EXCEPT !.start_time =
                                  @ - midi_events[f[1]].start_time]
    /\ kind \in {"batch", "stream"} =>
          \A i, j \in DOMAIN midi_log : i < j => midi_log[i].ev <= midi_log[j].ev

\* a batch given in decreasing start_time order has been played
C9_Witness ==
    /\ kind = "batch" /\ pc = "returned"
    /\ Len(midi_events) = 2
    /\ midi_events[1].start_time > midi_events[2].start_time
    /\ Len(midi_log) >= 4

\* the index in the log of the first message of event k
RECURSIVE GroupStart(_)
GroupStart(k) ==
    IF k = 1 THEN 1
    ELSE GroupStart(k - 1) + 2 * Len(NoteList(Played[k - 1].note))

(* C10: chord as a unit.  The messages of a call are, event after event,   *)
(* the note-ons of all the notes of the event, sent together, and then,    *)
(* duration later, the note-offs of the same notes on the same channel,    *)
(* with nothing in between; when the call returns every note-on has its    *)
(* note-off.                                                               *)
C10_ChordAsUnit ==
    kind \in {"batch", "stream"} =>
        /\ \A i \in DOMAIN midi_log :
              LET k == midi_log[i].ev
                  ns == NoteList(Played[k].note)
                  p == i - GroupStart(k) + 1
              IN  /\ p \in 1..(2 * Len(ns))
                  /\ IF p <= Len(ns)
                     THEN midi_log[i] =
                            [status |-> StatusOn(channel), note |-> ns[p],
                             velocity |-> Played[k].velocity,
                             time |-> midi_log[GroupStart(k)].time, ev |-> k]
                     ELSE midi_log[i] =
                            [status |-> StatusOff(channel),
                             note |-> ns[p - Len(ns)], velocity |-> 0,
                             time |-> midi_log[GroupStart(k)].time
                                      + Played[k].duration,
                             ev |-> k]
        /\ pc = "returned" =>
              /\ Len(midi_log) = GroupStart(Len(Played) + 1) - 1
              /\ \A i \in DOMAIN midi_log :
                    IsOn(midi_log[i]) =>
                        \E j \in DOMAIN midi_log :
                            /\ j > i
                            /\ midi_log[j].status = StatusOff(channel)
                            /\ midi_log[j].note = midi_log[i].note

\* a call that played a chord and another event has returned
C10_Witness ==
    /\ kind \in {"batch", "stream"} /\ pc = "returned"
    /\ Len(Played) = 2
    /\ Len(NoteList(Played[2].note)) = 3
    /\ channel = 1

----------------------------------------------------------------------------
(* Segmenter claims: filter, voiced test, flush *)

\* a frame whose confidence reaches the threshold and whose pitch is a MIDI
\* pitch
IsVoicedFrame(f) == f.conf >= threshold /\ f.midi >= 0 /\ f.midi <= Semis(127)

\* every note the frames close, short or long, with the way it was closed:
\* by an unvoiced frame, by a pitch change, or by the end of the frames
RECURSIVE Closures(_, _, _, _)
Closures(frames, i, cur, acc) ==
    IF i > Len(frames)
    THEN IF cur = None THEN acc
         ELSE Append(acc, [pitch |-> Val(cur).pitch, onset |-> Val(cur).onset,
                           end |-> Last(frames).t, by |-> "flush"])
    ELSE LET f == frames[i]
             closed(by) == Append(acc, [pitch |-> Val(cur).pitch,
                                        onset |-> Val(cur).onset,
                                        end |-> f.t, by |-> by])
             opened == Some([pitch |-> f.midi, onset |-> f.t])
         IN  IF IsVoicedFrame(f)
             THEN IF cur = None
                  THEN Closures(frames, i + 1, opened, acc)
                  ELSE IF 2 * Abs(f.midi - Val(cur).pitch) > Semis(1)
                  THEN Closures(frames, i + 1, opened, closed("change"))
                  ELSE Closures(frames, i + 1, cur, acc)
             ELSE IF cur = None
                  THEN Closures(frames, i + 1, cur, acc)
                  ELSE Closures(frames, i + 1, None, closed("silence"))

ClosedNotes(frames) == Closures(frames, 1, None, <<>>)

IsKept(c) == c.end - c.onset >= min_note_len

\* the notes of the closures that last min_note_len or more
RECURSIVE KeptNotes(_, _)
KeptNotes(cs, i) ==
    IF i > Len(cs) THEN <<>>
    ELSE (IF IsKept(cs[i])
          THEN <<[note |-> PyRound(cs[i].pitch), start_time |-> cs[i].onset,
                  duration |-> cs[i].end - cs[i].onset]>>
          ELSE <<>>) \o KeptNotes(cs, i + 1)

(* C16: minimum duration filter.  Every note the segmenter returns lasts   *)
(* min_note_len or more; the notes returned, by get_midi_events and by     *)
(* audio_to_midi, are exactly the closed notes of duration >= min_note_len *)
(* (one of duration min_note_len is kept, a shorter one is not), however   *)
(* the note was closed.                                                    *)
C16_MinDurationFilter ==
    /\ \A i \in DOMAIN notes : notes[i].duration >= min_note_len
    /\ Len(seg_returns) >= 1 =>
          /\ \A i \in DOMAIN seg_returns[1] :
                seg_returns[1][i].duration >= min_note_len
          /\ seg_returns[1] = KeptNotes(ClosedNotes(fed), 1)
          /\ audio_to_midi(fed) = KeptNotes(ClosedNotes(fed), 1)

\* the segmenter has returned after closing a note of exactly min_note_len in
\* the flush and a shorter one before it
C16_Witness ==
    /\ Len(seg_returns) >= 1
    /\ \E i \in DOMAIN ClosedNotes(fed) :
          LET c == ClosedNotes(fed)[i]
          IN  c.by = "flush" /\ c.end - c.onset = min_note_len
    /\ \E i \in DOMAIN ClosedNotes(fed) :
          LET c == ClosedNotes(fed)[i]
          IN  c.by # "flush" /\ c.end - c.onset < min_note_len

(* C17: voiced test.  After a frame whose confidence is >= threshold and   *)
(* whose pitch is within 0..127 a note is active; after any other frame no *)
(* note is active: such a frame opens none and closes the active one.      *)
C17_VoicedTest ==
    (fed # <<>> /\ Len(seg_returns) = 0) =>
        /\ current_note # None <=>
              (Last(fed).conf >= threshold /\ Last(fed).midi >= 0
                                           /\ Last(fed).midi <= Semis(127))
        /\ current_note # None => current_onset # None /\ current_conf # None

\* a frame at the threshold opened a note, a frame below it closed the note,
\* and a frame at the threshold opened the next one
C17_Witness ==
    /\ Len(seg_returns) = 0 /\ Len(fed) = 3
    /\ fed[1].conf = threshold /\ fed[2].conf = threshold - 1
    /\ fed[3].conf = threshold
    /\ Len(notes) = 1
    /\ current_onset = Some(fed[3].t)

(* C18: flush is idempotent.  Every further call of get_midi_events with   *)
(* no process_block in between returns what the first call returned, and   *)
(* leaves no note active.                                                  *)
C18_FlushIdempotent ==
    /\ \A i \in DOMAIN seg_returns : seg_returns[i] = seg_returns[1]
    /\ Len(seg_returns) >= 1 => current_note = None /\ notes = seg_returns[1]

\* get_midi_events was called twice, the first call closing the active note
C18_Witness ==
    /\ Len(seg_returns) >= 2
    /\ fed # <<>> /\ IsVoicedFrame(Last(fed))
    /\ seg_returns[2] # <<>>
    /\ Last(seg_returns[2]).start_time + Last(seg_returns[2]).duration
          = Last(fed).t

----------------------------------------------------------------------------
(* Playback claims: rebasing, playback without the metronome *)

\* the least start_time of the list given
MinStart == CHOOSE m \in {midi_events[i].start_time : i \in DOMAIN midi_events} :
                \A i \in DOMAIN midi_events : m <= midi_events[i].start_time

(* C19: rebasing.  After the sort-and-normalize step on a non-empty batch, *)
(* given in any order, the first event starts at 0, the events are those   *)
(* given, each with its start_time less the least start_time given (so     *)
(* none is negative and the offsets between them are kept), and the step   *)
(* applied again changes nothing.                                          *)
C19_Rebasing ==
    (kind = "batch" /\ pc \in {"b_wait", "b_hold", "returned"}
                     /\ midi_events # <<>>) =>
        /\ Len(events) = Len(midi_events)
        /\ events[1].start_time = 0
        /\ \A a \in DOMAIN events : events[a].start_time >= 0
        /\ \E f \in [DOMAIN events -> DOMAIN midi_events] :
              /\ \A a, b \in DOMAIN events : a # b => f[a] # f[b]
              /\ \A a \in DOMAIN events :
                    events[a] = [midi_events[f[a]] EXCEPT
                                    !.start_time = @ - MinStart]
        /\ Normalize(sorted(events)) = events

\* a batch given latest event first, with a least start_time above 0, is
\* being played
C19_Witness ==
    /\ kind = "batch" /\ pc \in {"b_wait", "b_hold"}
    /\ Len(midi_events) = 2
    /\ midi_events[1].start_time > midi_events[2].start_time
    /\ MinStart > 0
    /\ events[2].start_time > 0

(* C20: without the metronome nothing is deferred.  When the metronome is  *)
(* not running, send_midi_sequence starts the batch at the time of the     *)
(* call, and play_midi_events_streaming sends the first event's note-on    *)
(* when the first event arrives.                                           *)
C20_NoDeferralWhenStopped ==
    /\ (kind = "batch" /\ ~synced) =>
          /\ pc # "b_sync"
          /\ sequence_start_time = t_call
          /\ midi_events # <<>> =>
                /\ midi_log # <<>>
                /\ IsOn(midi_log[1]) /\ midi_log[1].time = t_call
    /\ (kind = "stream" /\ ~synced /\ received # <<>>) =>
          /\ pc # "s_sync"
          /\ zero_time = Some(arrivals[1] - received[1].start_time)
          /\ midi_log # <<>>
          /\ IsOn(midi_log[1]) /\ midi_log[1].time = arrivals[1]

\* with the metronome stopped, a stream's first event arrived in the middle
\* of what would be a bar and has been played
C20_Witness ==
    /\ kind = "stream" /\ ~synced /\ ~jam_running
    /\ pc = "returned"
    /\ received # <<>>
    /\ arrivals[1] % BAR_DURATION # 0

\* every note-on sent has a note-off after it, for its channel and note
AllNotesOff ==
    \A i \in DOMAIN midi_log :
        IsOn(midi_log[i]) =>
            \E j \in DOMAIN midi_log :
                /\ j > i
                /\ midi_log[j].status = midi_log[i].status - 16
                /\ midi_log[j].note = midi_log[i].note

(* C11: no dangling note-on.  When a user interrupt ends the program       *)
(* during playback, every note-on sent has been followed by a note-off for *)
(* its note.                                                               *)
C11_NoDanglingNoteOn ==
    pc = "interrupted" => AllNotesOff

----------------------------------------------------------------------------
(* Metronome claims *)

\* the bar duration of tempo b
BarOf(b) == (TicksPerMinute \div b) * BEATS_PER_BAR

(* C12: no torn tempo reads.  The bar durations that one pass through the  *)
(* syncing logic reads, while update_bpm runs in another thread, are all   *)
(* the bar duration of one single BPM.                                     *)
C12_NoTornTempoReads ==
    rd.pc = "done" =>
        \E b \in BpmChoices : \A k \in DOMAIN rd.bars : rd.bars[k] = BarOf(b)

\* the drum_beat_loop threads that have not ended
LiveDrums == {i \in DOMAIN drums : Live(i)}

(* C13: metronome lifecycle.  Whatever the calls of start_jam and stop_jam, *)
(* at most one drum_beat_loop thread is live at any time.                   *)
C13_OneDrumTask == Cardinality(LiveDrums) <= 1

(* C14: prompt cancellation.  After a stop_jam that no start_jam follows,  *)
(* a drum_beat_loop thread fires at most one further eighth note, and it   *)
(* ends: from any state where the metronome is stopped and a thread is     *)
(* live, a state is reached where no thread is live, or start_jam has been *)
(* called again.                                                           *)
C14_PromptCancellation ==
    /\ [](\A i \in DOMAIN drums : drums[i].after_stop <= 1)
    /\ (~jam_running /\ LiveDrums # {}) ~> (jam_running \/ LiveDrums = {})

\* a thread that was asleep when stop_jam was called has fired the eighth
\* note it was waiting for and has ended
C14_Witness ==
    /\ ~jam_running
    /\ \E i \in DOMAIN drums :
          drums[i].pc = "done" /\ drums[i].after_stop = 1

(* C15: drift-free ticks.  While the metronome runs and stop_jam has never *)
(* been called (the mixer is still open), so that the tempo is the one it  *)
(* was started with, the thread fires the eighth notes 0, 1, 2, ... in     *)
(* order, none skipped or repeated, eighth note n not before               *)
(* jam_start_time + n * EIGHTH_NOTE_DURATION, which is its deadline        *)
(* however late the eighth notes before it were fired.                     *)
C15_DriftFreeTicks ==
    (mixer_open /\ drums # <<>>) =>
        /\ Len(drums) = 1
        /\ \A k \in DOMAIN drums[1].ticks :
              LET tick == drums[1].ticks[k]
              IN  /\ tick.n = k - 1
                  /\ tick.deadline =
                        jam_start_time + (k - 1) * EIGHTH_NOTE_DURATION
                  /\ tick.time >= tick.deadline
        /\ drums[1].pc = "sleep" =>
              drums[1].wake = jam_start_time
                  + Len(drums[1].ticks) * EIGHTH_NOTE_DURATION

\* an eighth note was fired late and the thread sleeps until the next deadline
C15_Witness ==
    /\ mixer_open /\ drums # <<>>
    /\ Len(drums[1].ticks) >= 2
    /\ Last(drums[1].ticks).time > Last(drums[1].ticks).deadline
    /\ drums[1].pc = "sleep"

----------------------------------------------------------------------------
(* Segmenter claims: pitch change, wobble, order *)

\* the frames before the last one
Before(frames) == SubSeq(frames, 1, Len(frames) - 1)

\* the closed notes of the frames, the one still open at their end left out
ClosedInside(frames) ==
    SelectSeq(ClosedNotes(frames), LAMBDA c : c.by # "flush")

\* the note active after the frames: None, or Some of its pitch and onset
ActiveAfter(frames) ==
    LET cs == ClosedNotes(frames)
    IN  IF cs # <<>> /\ Last(cs).by = "flush"
        THEN Some([pitch |-> Last(cs).pitch, onset |-> Last(cs).onset])
        ELSE None

\* the last frame is voiced and comes while a note is active
LastOnActive ==
    /\ Len(seg_returns) = 0
    /\ Len(fed) >= 2
    /\ IsVoicedFrame(Last(fed))
    /\ ActiveAfter(Before(fed)) # None

\* the distance, in pitch units, of the last frame from the active pitch
LastDistance == Abs(Last(fed).midi - Val(ActiveAfter(Before(fed))).pitch)

(* C27: pitch change.  After a voiced frame at time t more than half a     *)
(* semitone away from the active pitch, the note that was active is in the *)
(* list if and only if t - onset >= min_note_len, with that duration, and  *)
(* the active note is a new one with the frame's pitch and onset t.        *)
C27_PitchChange ==
    (LastOnActive /\ 2 * LastDistance > Semis(1)) =>
        LET act == Val(ActiveAfter(Before(fed)))
            d == Last(fed).t - act.onset
        IN  /\ current_note = Some(Last(fed).midi)
            /\ current_onset = Some(Last(fed).t)
            /\ notes = KeptNotes(ClosedInside(Before(fed)), 1)
                         \o (IF d >= min_note_len
                             THEN <<[note |-> PyRound(act.pitch),
                                     start_time |-> act.onset,
                                     duration |-> d]>>
                             ELSE <<>>)

\* a pitch change closed a note too short to be kept and opened the next
C27_Witness ==
    /\ LastOnActive /\ 2 * LastDistance > Semis(1)
    /\ Last(fed).t - Val(ActiveAfter(Before(fed))).onset < min_note_len
    /\ current_onset = Some(Last(fed).t)

(* C28: wobble tolerance.  A voiced frame within half a semitone of the    *)
(* active pitch, half a semitone included, adds no note and leaves the     *)
(* active pitch and the onset as they were; so every note returned has the *)
(* rounded pitch of the frame at its start_time.                           *)
C28_WobbleTolerance ==
    /\ (LastOnActive /\ 2 * LastDistance <= Semis(1)) =>
          LET act == Val(ActiveAfter(Before(fed)))
          IN  /\ current_note = Some(act.pitch)
              /\ current_onset = Some(act.onset)
              /\ notes = KeptNotes(ClosedInside(Before(fed)), 1)
    /\ \A r \in DOMAIN seg_returns : \A i \in DOMAIN seg_returns[r] :
          \E k \in DOMAIN fed :
              /\ fed[k].t = seg_returns[r][i].start_time
              /\ seg_returns[r][i].note = PyRound(fed[k].midi)

\* a note opened at 60.5 and continued at 60.75 was returned as note 60
C28_Witness ==
    /\ Len(seg_returns) >= 1 /\ Len(fed) >= 2
    /\ fed[1].midi = Semis(60) + 2 /\ fed[2].midi = Semis(60) + 3
    /\ IsVoicedFrame(fed[1]) /\ IsVoicedFrame(fed[2])
    /\ seg_returns[1] # <<>>
    /\ seg_returns[1][1].note = 60
    /\ seg_returns[1][1].duration >= fed[2].t - fed[1].t

(* C29: the notes returned by get_midi_events are in nondecreasing         *)
(* start_time order and do not overlap: each ends no later than the next   *)
(* one starts.                                                             *)
C29_OrderedNoOverlap ==
    \A r \in DOMAIN seg_returns :
        \A i \in 1..(Len(seg_returns[r]) - 1) :
            LET a == seg_returns[r][i]
                b == seg_returns[r][i + 1]
            IN  /\ a.start_time <= b.start_time
                /\ a.start_time + a.duration <= b.start_time

\* two notes or more were returned from frames fed in several blocks
C29_Witness ==
    /\ Len(seg_returns) >= 1
    /\ Len(seg_returns[1]) >= 2
    /\ carried

----------------------------------------------------------------------------
(* Bar boundary *)

\* the time at which the playback call in progress read the clock to
\* compute its bar boundary
BoundaryReadAt == IF kind = "batch" THEN t_call ELSE arrivals[1]

\* the bar boundary the playback call in progress computed: the batch
\* call's play_time less its two bars, the streaming call's play_time
BoundaryComputed ==
    IF kind = "batch"
    THEN wake - 2 * BAR_DURATION
    ELSE Val(zero_time) + received[1].start_time

\* a quantized call has computed its boundary
BoundaryKnown ==
    /\ synced
    /\ \/ kind = "batch" /\ pc = "b_sync"
       \/ kind = "stream" /\ zero_time # None

(* C21: next bar boundary.  The boundary computed from a time t at or      *)
(* after jam_start_time is a whole number of bars after jam_start_time, is *)
(* strictly later than t and at most one BAR_DURATION later than t, also   *)
(* when t is itself a bar boundary.                                        *)
C21_NextBarBoundary ==
    BoundaryKnown =>
        LET t == BoundaryReadAt
            b == BoundaryComputed
        IN  /\ t >= jam_start_time
            /\ (b - jam_start_time) % BAR_DURATION = 0
            /\ b > t
            /\ b - t <= BAR_DURATION

\* a stream's boundary was computed from a time that is a bar boundary
\* after the first
C21_Witness ==
    /\ BoundaryKnown /\ kind = "stream"
    /\ BoundaryReadAt > jam_start_time
    /\ (BoundaryReadAt - jam_start_time) % BAR_DURATION = 0
    /\ BoundaryComputed = BoundaryReadAt + BAR_DURATION

----------------------------------------------------------------------------
(* Metronome pattern *)

\* the accent the pattern puts on eighth note n, if any
PatternAccent(n) ==
    IF n % 2 # 0 THEN <<>>
    ELSE CASE (n \div 2) % 4 = 0 -> <<"kick">>
           [] (n \div 2) % 4 = 1 -> <<"snare">>
           [] (n \div 2) % 4 = 2 -> <<"kick">>
           [] (n \div 2) % 4 = 3 -> <<"snare">>

(* C22: metronome pattern.  Every eighth note n fires the hi-hat; an even  *)
(* n fires exactly one more sound, by its beat (n / 2) mod 4: the kick on  *)
(* beats 0 and 2, the snare on beats 1 and 3; an odd n fires no more.      *)
C22_MetronomePattern ==
    \A i \in DOMAIN drums : \A k \in DOMAIN drums[i].ticks :
        LET tick == drums[i].ticks[k]
        IN  tick.sounds = <<"hihat">> \o PatternAccent(tick.n)

\* a drum thread has fired the eighth notes of one bar and the first of the
\* next
C22_Witness ==
    \E i \in DOMAIN drums :
        /\ Len(drums[i].ticks) >= 9
        /\ drums[i].ticks[9].n = 8
        /\ drums[i].ticks[5].sounds = <<"hihat", "kick">>
        /\ drums[i].ticks[7].sounds = <<"hihat", "snare">>

----------------------------------------------------------------------------
(* Decoder claims: incremental decoding, message domain *)

\* the text the decoder has received so far
Received == SubSeq(text, 1, pos)

(* C30: incremental decoding.  After every fragment, the events yielded    *)
(* are those of the lines of the received text that a newline terminates,  *)
(* all of them yielded before the next fragment is read, and the buffer    *)
(* holds no newline and is the received text after the last newline.       *)
C30_IncrementalDecoding ==
    /\ yielded = EventsOfLines(TerminatedLines(Received), 1)
    /\ ~Contains(buffer, "\n")
    /\ buffer = UnterminatedTail(Received)

\* two events have been yielded, part of the next line is in the buffer and
\* more of the response is to come
C30_Witness ==
    /\ dec_pc = "streaming"
    /\ pos < Len(text)
    /\ Len(yielded) >= 2
    /\ buffer # <<>>

\* an event of the message domain: notes and velocity in 0..127, duration > 0
InDomain(e) ==
    /\ \A j \in DOMAIN e.note.ns : e.note.ns[j] \in 0..127
    /\ e.velocity \in 0..127
    /\ e.duration.num > 0

(* C26: message domain.  Every event yielded from the streamed text has    *)
(* all its note numbers in 0..127, its velocity in 0..127 and a duration   *)
(* greater than 0.                                                         *)
C26_MessageDomain ==
    \A i \in DOMAIN yielded : InDomain(yielded[i])

----------------------------------------------------------------------------
(* Session claims *)

\* main is in its loop
InLoop == main_pc \in {"capture", "check", "call", "play", "pause"}

(* C23: a failure of the text source in the middle of a stream ends the    *)
(* round only: main is still in its loop after it.                         *)
C23_SessionSurvives ==
    (\E r \in DOMAIN rounds : rounds[r].failed) => InLoop

(* C24: in a round in which the segmenter returned an empty note list, the *)
(* text source is not called and nothing is played, and main goes from the *)
(* test of the list to the capture of a new round.                         *)
C24_EmptyInputSkipsRound ==
    \A r \in DOMAIN rounds :
        rounds[r].midi_input = <<>> =>
            /\ ~rounds[r].called
            /\ rounds[r].sent = None
            /\ rounds[r].played = 0
            /\ ~rounds[r].failed
            /\ r = Len(rounds) => main_pc \in {"check", "capture"}

\* a round with an empty note list was followed by a round that played
C24_Witness ==
    /\ Len(rounds) >= 2
    /\ rounds[1].midi_input = <<>>
    /\ rounds[2].played >= 1

(* C25: the request of a round carries the style that playing_style held   *)
(* when main called stream_llm_midi_response, whatever the listener has    *)
(* assigned since; a round makes one request at most.                      *)
C25_StyleReadAtCall ==
    \A r \in DOMAIN rounds :
        /\ rounds[r].called <=> rounds[r].style_at_call # None
        /\ rounds[r].sent # None =>
              /\ rounds[r].called
              /\ rounds[r].sent = rounds[r].style_at_call

\* the first round's request went out with the initial style; the style was
\* changed, the second round's request carries the new one, and a change
\* made after that call has left it as it was
C25_Witness ==
    /\ Len(rounds) >= 2
    /\ rounds[1].sent = Some("mellow")
    /\ rounds[2].style_at_call = Some("bright")
    /\ rounds[2].sent = Some("bright")
    /\ playing_style = "mellow"

----------------------------------------------------------------------------
(* Wire format claims *)

\* the round trip has been made
RoundTripDone == wire_back # None

\* every note of the list is one integer or a list of two integers or more
NoListOfOne ==
    \A i \in DOMAIN wire_events :
        wire_events[i].note.is_list => Len(wire_events[i].note.ns) >= 2

(* C31, as claimed: csv_to_midi_events(midi_events_to_csv(events)) returns *)
(* the events given, for any list of events whose note is one integer or a *)
(* list of integers.                                                       *)
C31_RoundTripAnyList ==
    RoundTripDone => Val(wire_back) = wire_events

(* C31: wire-format round trip.  For any list of events whose note is one  *)
(* integer or a list of two integers or more,                              *)
(* csv_to_midi_events(midi_events_to_csv(events)) returns the same events, *)
(* with the same field values, in the same order.                          *)
C31_RoundTrip ==
    (RoundTripDone /\ NoListOfOne) => Val(wire_back) = wire_events

\* a note and a chord, with a start_time that has a fraction, came back
C31_Witness ==
    /\ RoundTripDone /\ NoListOfOne
    /\ Len(wire_events) = 2
    /\ ~wire_events[1].note.is_list
    /\ wire_events[2].note.is_list
    /\ wire_events[2].start_time = Lowest(125, 100)
    /\ Val(wire_back) = wire_events

----------------------------------------------------------------------------
(* Epoch claims *)

\* jam_running is set only after jam_start_time was written, and a reader
\* that found jam_running set has read a value start_jam wrote
EpochWritten ==
    /\ jam_running =>
          /\ epoch_log # <<>>
          /\ jam_start_time = Last(epoch_log)
    /\ er.got =>
          /\ er.writes >= 1
          /\ er.epoch = epoch_log[er.writes]

\* start_jam that finds jam_running set changes neither jam_start_time nor
\* the threads
StartWhileRunning ==
    (sj.pc = "test" /\ jam_running) =>
        UNCHANGED <<jam_start_time, drum_threads, drums>>

(* C32: epoch consistency.  jam_start_time is written before jam_running   *)
(* is set, and start_jam called while the metronome runs changes neither   *)
(* jam_start_time nor the set of threads; so a reader that finds           *)
(* jam_running set and then reads jam_start_time gets the epoch of a run   *)
(* that was started, never the value jam_start_time had before any start.  *)
C32_EpochConsistency == []EpochWritten /\ [][StartWhileRunning]_vars

\* a reader found jam_running set in the first run and read the epoch of the
\* second, started after a stop_jam
C32_Witness ==
    /\ er.got
    /\ er.writes = 2
    /\ er.epoch > epoch_log[1]
    /\ er.reads = 1
====
